---- MODULE Spec2Model ----
(***************************************************************************)
(* Model of the schemachange deploy engine (src/schemachange).             *)
(*                                                                         *)
(* Text is modelled as a sequence of one-character strings, so that the    *)
(* version key, the filename grammar and the renderer are computed on the  *)
(* characters as the Python code computes them.                            *)
(***************************************************************************)
EXTENDS Integers, Sequences, FiniteSets, TLC

\* ------------------------------------------------------------------------
\* Characters
\* ------------------------------------------------------------------------
Uppers == <<"A","B","C","D","E","F","G","H","I","J","K","L","M",
            "N","O","P","Q","R","S","T","U","V","W","X","Y","Z">>
Lowers == <<"a","b","c","d","e","f","g","h","i","j","k","l","m",
            "n","o","p","q","r","s","t","u","v","w","x","y","z">>
Digits == <<"0","1","2","3","4","5","6","7","8","9">>

\* U+FEFF, written as one character of the text
BOM == "BOM"

Punctuation == {"\t", "\n", " ", "*", "-", ".", "/", ":", ";", "_", BOM}

\* the characters of the texts of the model
Chars == {Uppers[i] : i \in 1..26} \cup {Lowers[i] : i \in 1..26} \cup {Digits[i] : i \in 1..10}
         \cup Punctuation

DigitSet == {Digits[i] : i \in 1..10}
IsDigit(c) == c \in DigitSet
DigitValues == [c \in DigitSet |-> (CHOOSE i \in 1..10 : Digits[i] = c) - 1]
DigitVal(c) == DigitValues[c]

\* str.lower() / str.upper() on one character, tabulated over Chars
LowerChars ==
    [c \in Chars |-> IF \E i \in 1..26 : Uppers[i] = c
                     THEN Lowers[CHOOSE i \in 1..26 : Uppers[i] = c] ELSE c]
UpperChars ==
    [c \in Chars |-> IF \E i \in 1..26 : Lowers[i] = c
                     THEN Uppers[CHOOSE i \in 1..26 : Lowers[i] = c] ELSE c]
LowerChar(c) == LowerChars[c]
UpperChar(c) == UpperChars[c]
Lower(s) == [i \in 1..Len(s) |-> LowerChar(s[i])]
Upper(s) == [i \in 1..Len(s) |-> UpperChar(s[i])]

\* the code point of a character (Python compares strings by code point),
\* tabulated over Chars
CodePoints ==
    [c \in Chars |->
        IF c \in DigitSet THEN 48 + DigitValues[c]
        ELSE IF \E i \in 1..26 : Uppers[i] = c THEN 64 + (CHOOSE i \in 1..26 : Uppers[i] = c)
        ELSE IF \E i \in 1..26 : Lowers[i] = c THEN 96 + (CHOOSE i \in 1..26 : Lowers[i] = c)
        ELSE CASE c = "\t" -> 9
               [] c = "\n" -> 10
               [] c = " "  -> 32
               [] c = "*"  -> 42
               [] c = "-"  -> 45
               [] c = "."  -> 46
               [] c = "/"  -> 47
               [] c = ":"  -> 58
               [] c = ";"  -> 59
               [] c = "_"  -> 95
               [] c = BOM  -> 65279]
Ord(c) == CodePoints[c]

\* str.isspace() on one character
IsSpace(c) == c \in {" ", "\n", "\t"}

\* s[from..to] with Python's clamping, 1-based and inclusive
Slice(s, from, to) == SubSeq(s, from, IF to > Len(s) THEN Len(s) ELSE to)
StartsWith(s, p) == Len(s) >= Len(p) /\ SubSeq(s, 1, Len(p)) = p
EndsWith(s, p) == Len(s) >= Len(p) /\ SubSeq(s, Len(s) - Len(p) + 1, Len(s)) = p

\* Python's comparison of two strings: -1, 0 or 1
RECURSIVE StrCmp(_, _)
StrCmp(s, t) ==
    IF s = <<>> /\ t = <<>> THEN 0
    ELSE IF s = <<>> THEN -1
    ELSE IF t = <<>> THEN 1
    ELSE IF Ord(Head(s)) < Ord(Head(t)) THEN -1
    ELSE IF Ord(Head(s)) > Ord(Head(t)) THEN 1
    ELSE StrCmp(Tail(s), Tail(t))

\* ------------------------------------------------------------------------
\* version.py
\* ------------------------------------------------------------------------
\* None, for the values the code leaves unset
None == <<"None">>

\* str.isdigit()
IsDigitStr(t) == t # <<>> /\ \A i \in 1..Len(t) : IsDigit(t[i])

\* int(text) of a digit run
RECURSIVE IntOf(_)
IntOf(t) == IF t = <<>> THEN 0 ELSE 10 * IntOf(SubSeq(t, 1, Len(t) - 1)) + DigitVal(t[Len(t)])

\* re.split("([0-9]+)", s): the segments between the maximal digit runs and
\* the digit runs themselves, alternating, first and last a non-digit segment
RECURSIVE ReSplit(_, _, _)
ReSplit(s, cur, inDigits) ==
    IF s = <<>> THEN (IF inDigits THEN <<cur, <<>>>> ELSE <<cur>>)
    ELSE IF IsDigit(Head(s)) = inDigits THEN ReSplit(Tail(s), Append(cur, Head(s)), inDigits)
    ELSE <<cur>> \o ReSplit(Tail(s), <<Head(s)>>, ~inDigits)

alphanum_convert(text) == IF IsDigitStr(text) THEN IntOf(text) ELSE Lower(text)

\* the key of a string: strings at the odd positions, integers at the even
get_alphanum_key(key) ==
    IF key = <<>> \/ key = None THEN <<>>
    ELSE LET parts == ReSplit(key, <<>>, FALSE)
         IN  [i \in 1..Len(parts) |-> alphanum_convert(parts[i])]

\* Python's comparison of two keys (lists), element by element from position i
RECURSIVE KeyCmpFrom(_, _, _)
KeyCmpFrom(a, b, i) ==
    IF i > Len(a) /\ i > Len(b) THEN 0
    ELSE IF i > Len(a) THEN -1
    ELSE IF i > Len(b) THEN 1
    ELSE LET c == IF i % 2 = 1 THEN StrCmp(a[i], b[i])
                  ELSE IF a[i] < b[i] THEN -1 ELSE IF a[i] > b[i] THEN 1 ELSE 0
         IN  IF c # 0 THEN c ELSE KeyCmpFrom(a, b, i + 1)

KeyCmp(a, b) == KeyCmpFrom(a, b, 1)
KeyLeq(a, b) == KeyCmp(a, b) <= 0
KeyLess(a, b) == KeyCmp(a, b) < 0

\* sorted(data, key=get_alphanum_key): a stable sort, so an element goes
\* behind every element already placed whose key is not greater
RECURSIVE InsertByKey(_, _)
InsertByKey(sorted, x) ==
    IF sorted = <<>> THEN <<x>>
    ELSE IF KeyLess(get_alphanum_key(x), get_alphanum_key(Head(sorted)))
         THEN <<x>> \o sorted
         ELSE <<Head(sorted)>> \o InsertByKey(Tail(sorted), x)

\* sorted(data): the names compared as plain text
RECURSIVE InsertByText(_, _)
InsertByText(sorted, x) ==
    IF sorted = <<>> THEN <<x>>
    ELSE IF StrCmp(x, Head(sorted)) < 0 THEN <<x>> \o sorted
    ELSE <<Head(sorted)>> \o InsertByText(Tail(sorted), x)

RECURSIVE sorted_as_text(_)
sorted_as_text(data) ==
    IF data = <<>> THEN <<>>
    ELSE InsertByText(sorted_as_text(SubSeq(data, 1, Len(data) - 1)), data[Len(data)])

RECURSIVE sorted_alphanumeric(_)
sorted_alphanumeric(data) ==
    IF data = <<>> THEN <<>>
    ELSE InsertByKey(sorted_alphanumeric(SubSeq(data, 1, Len(data) - 1)), data[Len(data)])

\* [v for v in versions if v is not None and v != ""]
RECURSIVE ValidVersions(_)
ValidVersions(versions) ==
    IF versions = <<>> THEN <<>>
    ELSE (IF Head(versions) # None /\ Head(versions) # <<>> THEN <<Head(versions)>> ELSE <<>>)
         \o ValidVersions(Tail(versions))

\* the first element whatever the keys are
FirstVersion(vs) == vs[1]

\* max(valid, key=get_alphanum_key): the first of the greatest elements
RECURSIVE MaxByKey(_)
MaxByKey(vs) ==
    IF Len(vs) = 1 THEN vs[1]
    ELSE LET m == MaxByKey(SubSeq(vs, 1, Len(vs) - 1))
         IN  IF KeyLess(get_alphanum_key(m), get_alphanum_key(vs[Len(vs)])) THEN vs[Len(vs)] ELSE m

max_alphanumeric(versions) ==
    LET valid == ValidVersions(versions)
    IN  IF valid = <<>> THEN None ELSE MaxByKey(valid)

\* ------------------------------------------------------------------------
\* session/Script.py
\* ------------------------------------------------------------------------
\* str.strip(), str.lstrip() and str.rstrip()
LStrip(s) ==
    LET kept == {i \in 1..Len(s) : ~IsSpace(s[i])}
    IN  IF kept = {} THEN <<>> ELSE SubSeq(s, CHOOSE i \in kept : \A j \in kept : i <= j, Len(s))
RStrip(s) ==
    LET kept == {i \in 1..Len(s) : ~IsSpace(s[i])}
    IN  IF kept = {} THEN <<>> ELSE SubSeq(s, 1, CHOOSE i \in kept : \A j \in kept : i >= j)
Strip(s) == RStrip(LStrip(s))

DotSql == <<".", "s", "q", "l">>
DotJinja == <<".", "j", "i", "n", "j", "a">>
DotCliYml == <<".", "c", "l", "i", ".", "y", "m", "l">>

\* sql_pattern and cli_pattern of get_all_scripts_recursively, re.IGNORECASE
sql_pattern(s) == EndsWith(Lower(s), DotSql) \/ EndsWith(Lower(s), DotSql \o DotJinja)
cli_pattern(s) == EndsWith(Lower(s), DotCliYml) \/ EndsWith(Lower(s), DotCliYml \o DotJinja)

\* one repetition of ([^_]|_(?!_)) at position p of s
VersionCharAt(s, p) == p <= Len(s) /\ (s[p] # "_" \/ p = Len(s) \/ s[p + 1] # "_")

\* Script.pattern.search(s) of the six script classes: the prefix letter, an
\* optional greedy version, a greedy separator of one or two underscores, a
\* lazy description, and then "." (SQL classes) or ".cli.yml(.jinja)" up to
\* the end (CLI classes).
\* DescEnd: the ends of the descriptions that can start at position from
DescEnd(s, cli, from) ==
    {e \in from..Len(s) :
        /\ \A k \in from..e : s[k] # "\n"
        /\ IF cli
           THEN Lower(SubSeq(s, e + 1, Len(s))) \in {DotCliYml, DotCliYml \o DotJinja}
           ELSE e + 1 <= Len(s) /\ s[e + 1] = "."}

\* Cands: the lengths <<version, separator>> with which the pattern matches
Cands(s, withVersion, cli) ==
    {c \in (0..Len(s)) \X (1..2) :
        /\ (c[1] > 0 => withVersion)
        /\ \A p \in 2..(1 + c[1]) : VersionCharAt(s, p)
        /\ \A p \in (2 + c[1])..(1 + c[1] + c[2]) : p <= Len(s) /\ s[p] = "_"
        /\ DescEnd(s, cli, 2 + c[1] + c[2]) # {}}

\* the match the backtracking search finds first: the longest version, then
\* the longest separator, then the shortest description
BestCand(cands) == CHOOSE c \in cands : \A d \in cands : 2 * d[1] + d[2] <= 2 * c[1] + c[2]
ShortestEnd(ends) == CHOOSE e \in ends : \A f \in ends : e <= f

Match(s, version_len, separator_len, to) ==
    [matched |-> TRUE,
     version |-> IF version_len = 0 THEN None ELSE SubSeq(s, 2, 1 + version_len),
     separator |-> SubSeq(s, 2 + version_len, 1 + version_len + separator_len),
     description |-> SubSeq(s, 2 + version_len + separator_len, to)]

MatchAt(s, cli, best) ==
    Match(s, best[1], best[2], ShortestEnd(DescEnd(s, cli, 2 + best[1] + best[2])))

SearchIn(s, letter, cli, cands) ==
    IF Len(s) = 0 \/ LowerChar(s[1]) # LowerChar(letter) \/ cands = {} THEN [matched |-> FALSE]
    ELSE MatchAt(s, cli, BestCand(cands))

PatternSearch(s, letter, withVersion, cli) == SearchIn(s, letter, cli, Cands(s, withVersion, cli))

\* os.sep on the platform modelled (POSIX; os.altsep is None)
PathSep == "/"

\* Path(p).name: the last component of the path, trailing separators dropped
RECURSIVE DropTrailingSeps(_)
DropTrailingSeps(p) ==
    IF p # <<>> /\ p[Len(p)] = PathSep THEN DropTrailingSeps(SubSeq(p, 1, Len(p) - 1)) ELSE p
RECURSIVE LastComponent(_)
LastComponent(p) ==
    IF p = <<>> \/ p[Len(p)] = PathSep THEN <<>>
    ELSE Append(LastComponent(SubSeq(p, 1, Len(p) - 1)), p[Len(p)])
PathName(p) == LastComponent(DropTrailingSeps(p))

\* Script.get_script_name: the file name without a final .jinja suffix
get_script_name(file_name) ==
    IF EndsWith(Upper(file_name), Upper(DotJinja)) /\ Len(file_name) > Len(DotJinja)
    THEN SubSeq(file_name, 1, Len(file_name) - Len(DotJinja))
    ELSE file_name

\* The result of building a script from a file: a script record, NoScript
\* (the factory's None) for a file that is not a change script, or the
\* ValueError raised, with the text of its message, what the message names
\* besides the file (a prefix, a script name and a first instance, a
\* version), and the path of the file.
NoScript == [kind |-> "none"]
ScriptError(msg, named, file_path) == [kind |-> "error", error |-> msg, named |-> named, file_path |-> file_path]

\* from_path without the check of the separator
from_path_any_separator(file_name, type, format, name_parts) ==
    IF type = "V" /\ name_parts.version = None
    THEN ScriptError("Versioned migrations must be prefixed with a version", <<>>, file_name)
    ELSE [kind |-> "script",
          name |-> get_script_name(PathName(file_name)),
          file_path |-> file_name,
          type |-> type,
          format |-> format,
          version |-> IF type = "V" THEN name_parts.version ELSE None]

\* Script.from_path together with the from_path of the versioned classes
from_name_parts(file_name, type, format, name_parts) ==
    IF type = "V" /\ name_parts.version = None
    THEN ScriptError("Versioned migrations must be prefixed with a version", <<>>, file_name)
    ELSE IF Len(name_parts.separator) # 2
    THEN ScriptError("two underscores are required",
                     <<IF type = "V" THEN <<"V">> \o name_parts.version ELSE <<type>>>>, file_name)
    ELSE [kind |-> "script",
          name |-> get_script_name(PathName(file_name)),
          file_path |-> file_name,
          type |-> type,
          format |-> format,
          version |-> IF type = "V" THEN name_parts.version ELSE None]

from_path(file_name, type, format) ==
    from_name_parts(file_name, type, format,
                    PatternSearch(Strip(PathName(file_name)), type, type = "V", format = "CLI"))

\* script_factory (format SQL) and cli_script_factory (format CLI)
factory(file_name, format) ==
    LET s == Strip(PathName(file_name))
    IN  IF PatternSearch(s, "V", TRUE, format = "CLI").matched THEN from_path(file_name, "V", format)
        ELSE IF PatternSearch(s, "R", FALSE, format = "CLI").matched THEN from_path(file_name, "R", format)
        ELSE IF PatternSearch(s, "A", FALSE, format = "CLI").matched THEN from_path(file_name, "A", format)
        ELSE NoScript

script_factory(file_name) == factory(file_name, "SQL")
cli_script_factory(file_name) == factory(file_name, "CLI")

\* the keys of all_files, in insertion order
HasName(all_files, k) == \E i \in 1..Len(all_files) : all_files[i].name = k
NotInSeq(x, s) == FALSE
Keys(all_files) == [i \in 1..Len(all_files) |-> Lower(all_files[i].name)]
HasKey(all_files, k) == \E i \in 1..Len(all_files) : Lower(all_files[i].name) = k
Lookup(all_files, k) == all_files[CHOOSE i \in 1..Len(all_files) : Lower(all_files[i].name) = k]
InSeq(x, s) == \E i \in 1..Len(s) : s[i] = x

\* The loop of get_all_scripts_recursively over the files in the order the
\* directory walk yields them. all_files is the dict, kept as the sequence
\* of its values in insertion order (its keys are the lowercased names).
\* script_of_file: lines 207-217, the factory chosen by the file name
script_of_file(file_name) ==
    IF cli_pattern(Strip(PathName(file_name))) THEN cli_script_factory(file_name)
    ELSE IF sql_pattern(Strip(PathName(file_name))) THEN script_factory(file_name)
    ELSE NoScript

RECURSIVE CollectScripts(_, _, _)
\* lines 219-238: the duplicate checks and the insertion of one script
AddScript(script, file_name, file_paths, all_files, all_versions) ==
    IF script.kind = "none" THEN CollectScripts(file_paths, all_files, all_versions)
    ELSE IF script.kind = "error" THEN script
    ELSE IF HasKey(all_files, Lower(script.name))
    THEN ScriptError("The script name exists more than once",
                     <<script.name, Lookup(all_files, Lower(script.name)).file_path>>, file_name)
    ELSE IF script.type = "V" /\ InSeq(script.version, all_versions)
    THEN ScriptError("The script version exists more than once", <<script.version>>, file_name)
    ELSE CollectScripts(file_paths, Append(all_files, script),
                        IF script.type = "V" THEN Append(all_versions, script.version)
                        ELSE all_versions)

CollectScripts(file_paths, all_files, all_versions) ==
    IF file_paths = <<>> THEN [kind |-> "ok", all_files |-> all_files]
    ELSE AddScript(script_of_file(Head(file_paths)), Head(file_paths), Tail(file_paths),
                   all_files, all_versions)

get_all_scripts_recursively(file_paths) == CollectScripts(file_paths, <<>>, <<>>)

\* ------------------------------------------------------------------------
\* JinjaTemplateProcessor.py
\* ------------------------------------------------------------------------
\* s.find(p, from): the first position >= from where p occurs in s, 0 if none
Find(s, p, from) ==
    LET hits == {i \in from..(Len(s) - Len(p) + 1) : SubSeq(s, i, i + Len(p) - 1) = p}
    IN  IF hits = {} THEN 0 ELSE CHOOSE i \in hits : \A j \in hits : i <= j

\* p occurs in s
Contains(s, p) == Find(s, p, 1) # 0

\* s.replace(c, "") for one character c
RemoveChar(s, c) == SelectSeq(s, LAMBDA x : x # c)

\* re.sub(r"--[^\n]*", "", s)
RECURSIVE RemoveLineComments(_)
RemoveLineComments(s) ==
    LET start == Find(s, <<"-", "-">>, 1)
        nl == Find(s, <<"\n">>, start)
    IN  IF start = 0 THEN s
        ELSE IF nl = 0 THEN SubSeq(s, 1, start - 1)
        ELSE SubSeq(s, 1, start - 1) \o RemoveLineComments(SubSeq(s, nl, Len(s)))

\* re.sub(r"/\*.*?\*/", "", s, flags=re.DOTALL): the first "/*" that has a
\* "*/" after it starts the first match, which ends at the nearest "*/"
RECURSIVE RemoveBlockComments(_)
RemoveBlockComments(s) ==
    LET start == Find(s, <<"/", "*">>, 1)
        end == Find(s, <<"*", "/">>, start + 2)
    IN  IF start = 0 \/ end = 0 THEN s
        ELSE SubSeq(s, 1, start - 1) \o RemoveBlockComments(SubSeq(s, end + 2, Len(s)))

\* str.isspace(): non-empty and only whitespace
IsSpaceStr(s) == s # <<>> /\ \A i \in 1..Len(s) : IsSpace(s[i])

\* JinjaTemplateProcessor._is_cli_script
_is_cli_script(script) ==
    EndsWith(Lower(script), DotCliYml) \/ EndsWith(Lower(script), DotCliYml \o DotJinja)

RenderError(msg) == [kind |-> "error", error |-> msg]
Rendered(content) == [kind |-> "ok", content |-> content]

\* every trailing semicolon is removed, not only the last character
StripTrailingSemicolons(content) ==
    LET keep == {i \in 0..Len(content) : \A j \in (i + 1)..Len(content) : content[j] = ";"}
    IN  SubSeq(content, 1, CHOOSE i \in keep : \A k \in keep : i <= k)

\* the trailing semicolon is kept
KeepTrailingSemicolon(content) == content

\* the trailing semicolon is dropped only when it is the only one at the end
StripSingleSemicolon(content) ==
    IF /\ content # <<>>
       /\ content[Len(content)] = ";"
       /\ ~(Len(content) >= 2 /\ content[Len(content) - 1] = ";")
    THEN SubSeq(content, 1, Len(content) - 1)
    ELSE content

\* content[:-1] if content.endswith(";") else content
StripTrailingSemicolon(content) ==
    IF content # <<>> /\ content[Len(content)] = ";"
    THEN SubSeq(content, 1, Len(content) - 1)
    ELSE content

\* the text of a template without the single trailing newline that
\* jinja2 drops (keep_trailing_newline is not set)
DropTrailingNewline(source) ==
    IF source # <<>> /\ source[Len(source)] = "\n" THEN SubSeq(source, 1, Len(source) - 1) ELSE source

\* template.render(**variables) on the text from position 1: every
\* {{ name }} expression is replaced by the value of the variable, an
\* undefined variable is an error (StrictUndefined)
RECURSIVE ExpandFrom(_, _)
ExpandTail(head, rest) ==
    IF rest.kind = "error" THEN rest ELSE Rendered(head \o rest.content)

ExpandFrom(source, variables) ==
    LET open == Find(source, <<"{", "{">>, 1)
        close == Find(source, <<"}", "}">>, open + 2)
        name == Strip(SubSeq(source, open + 2, close - 1))
    IN  IF open = 0 THEN Rendered(source)
        ELSE IF close = 0 THEN RenderError("TemplateSyntaxError")
        ELSE IF name \notin DOMAIN variables THEN RenderError("UndefinedError")
        ELSE ExpandTail(SubSeq(source, 1, open - 1) \o variables[name],
                        ExpandFrom(SubSeq(source, close + 2, Len(source)), variables))

\* JinjaTemplateProcessor.render lines 54-56: the template is always expanded
template_render(source, variables) == ExpandFrom(DropTrailingNewline(source), variables)

\* every U+FEFF is removed, wherever it stands
RemoveEveryBom(raw_content) == SelectSeq(raw_content, LAMBDA c : c # BOM)

\* JinjaTemplateProcessor.render lines 61-63:
\* if raw_content.startswith("\ufeff"): raw_content = raw_content[1:]
RemoveBom(raw_content) ==
    IF raw_content # <<>> /\ Head(raw_content) = BOM THEN Tail(raw_content) ELSE raw_content

\* render without the validation of the result
render_unvalidated(script, raw_content) ==
    LET no_bom == RemoveBom(raw_content)
        content == Strip(no_bom)
    IN  IF _is_cli_script(script) THEN Rendered(content) ELSE Rendered(StripTrailingSemicolon(content))

\* "\nSELECT 1; -- schemachange: trailing comment fix"
TrailingCommentFix ==
    <<"\n", "S", "E", "L", "E", "C", "T", " ", "1", ";", " ", "-", "-", " ",
      "s", "c", "h", "e", "m", "a", "c", "h", "a", "n", "g", "e", ":", " ",
      "t", "r", "a", "i", "l", "i", "n", "g", " ",
      "c", "o", "m", "m", "e", "n", "t", " ", "f", "i", "x">>

\* render that appends the trailing comment fix itself
render_with_fix(script, raw_content) ==
    Rendered(StripTrailingSemicolon(Strip(RemoveBom(raw_content))) \o TrailingCommentFix)

\* JinjaTemplateProcessor.render after template.render(**variables):
\* raw_content is the expanded template text of the script
render(script, raw_content) ==
    LET no_bom == RemoveBom(raw_content)
        content == Strip(no_bom)
        sql == StripTrailingSemicolon(content)
        content_without_comments ==
            Strip(RemoveChar(RemoveBlockComments(RemoveLineComments(sql)), ";"))
    IN  IF _is_cli_script(script)
        THEN IF content = <<>> THEN RenderError("CLI script rendered to empty content")
             ELSE Rendered(content)
        ELSE IF sql = <<>> \/ IsSpaceStr(sql) THEN RenderError("rendered to empty content")
        ELSE IF content_without_comments = <<>> THEN RenderError("contains only comments or semicolons")
        ELSE Rendered(sql)

\* JinjaTemplateProcessor._find_last_real_semicolon, positions counted from
\* 1 and 0 for "not found": the scan from position i with the last real
\* semicolon seen so far
RECURSIVE FindLastRealSemicolonFrom(_, _, _)
FindLastRealSemicolonFrom(content, i, last_real_semicolon) ==
    IF i > Len(content) THEN last_real_semicolon
    ELSE IF Slice(content, i, i + 1) = <<"-", "-">>
    THEN LET newline_idx == Find(content, <<"\n">>, i)
         IN  IF newline_idx = 0 THEN last_real_semicolon
             ELSE FindLastRealSemicolonFrom(content, newline_idx + 1, last_real_semicolon)
    ELSE IF Slice(content, i, i + 1) = <<"/", "*">>
    THEN LET end_idx == Find(content, <<"*", "/">>, i + 2)
         IN  IF end_idx = 0 THEN last_real_semicolon
             ELSE FindLastRealSemicolonFrom(content, end_idx + 2, last_real_semicolon)
    ELSE FindLastRealSemicolonFrom(content, i + 1, IF content[i] = ";" THEN i ELSE last_real_semicolon)

_find_last_real_semicolon(content) == FindLastRealSemicolonFrom(content, 1, 0)

\* the fix appended to every content that has a real semicolon
AppendFixAfterSemicolon(content) ==
    IF _find_last_real_semicolon(content) = 0 THEN content ELSE RStrip(content) \o TrailingCommentFix

\* JinjaTemplateProcessor._handle_trailing_comments
_handle_trailing_comments(content) ==
    LET last_semicolon_idx == _find_last_real_semicolon(content)
        after_semicolon == SubSeq(content, last_semicolon_idx + 1, Len(content))
        after_stripped == Strip(RemoveBlockComments(RemoveLineComments(after_semicolon)))
    IN  IF last_semicolon_idx = 0 THEN content
        ELSE IF ~Contains(after_semicolon, <<"\n">>) THEN content
        ELSE IF after_stripped = <<>> /\ Strip(after_semicolon) # <<>>
        THEN RStrip(content) \o TrailingCommentFix
        ELSE content

\* JinjaTemplateProcessor.prepare_for_execution
prepare_for_execution(content, script) ==
    IF _is_cli_script(script) THEN content ELSE _handle_trailing_comments(content)

\* hashlib.sha224(text.encode("utf-8")).hexdigest(): a digest is a non-empty
\* string, and distinct texts are taken to have distinct digests
sha224(text) == <<"sha224:">> \o text

\* ------------------------------------------------------------------------
\* The repository, the configuration and the session
\* ------------------------------------------------------------------------
\* bounds of the model
MaxFiles == 2
MaxRuns == 3
MaxEdits == 1
MaxSessionErrors == 1

\* file names of the repositories explored
V1_0_2__c == <<"V", "1", ".", "0", ".", "2", "_", "_", "c", ".", "s", "q", "l">>
V1_0_10__b == <<"V", "1", ".", "0", ".", "1", "0", "_", "_", "b", ".", "s", "q", "l">>
R__z == <<"R", "_", "_", "z", ".", "s", "q", "l">>
A__x_cli == <<"A", "_", "_", "x", ".", "c", "l", "i", ".", "y", "m", "l">>
A__y == <<"A", "_", "_", "y", ".", "s", "q", "l">>
V1_0_3__old == <<"V", "1", ".", "0", ".", "3", "_", "_", "o", "l", "d", ".", "s", "q", "l">>
V3__old == <<"V", "3", "_", "_", "o", "l", "d", ".", "s", "q", "l">>
\* a file name with a single underscore after the prefix
R_q == <<"R", "_", "q", ".", "s", "q", "l">>

FileUniverse == {V1_0_2__c, V1_0_10__b, R__z, A__x_cli, A__y, R_q}

\* texts of script files: a statement, with and without the final
\* semicolon, a statement followed by a comment line, the same for another
\* statement, a comment alone, and a semicolon alone
Text_S == <<"S">>
Text_S_semi == <<"S", ";">>
Text_S_comment == <<"S", ";", "\n", "-", "-", "c">>
Text_T_semi == <<"T", ";">>
Text_T_comment == <<"T", ";", "\n", "-", "-", "c">>
Text_comment == <<"-", "-", "c">>
Text_semi == <<";">>

InitialContent(f) ==
    IF f \in {V1_0_10__b, R__z} THEN Text_S_comment
    ELSE IF f = A__y THEN Text_S
    ELSE Text_S_semi

EditContents == {Text_T_semi, Text_T_comment, Text_comment, Text_semi}

\* DeployConfig: the flags deploy reads
Configs ==
    [dry_run : BOOLEAN,
     out_of_order : BOOLEAN,
     raise_exception_on_ignored_versioned_script : BOOLEAN,
     continue_versioned_on_error : BOOLEAN,
     continue_repeatable_on_error : BOOLEAN,
     continue_always_on_error : BOOLEAN]

\* a row of the change-history table
HistoryRow(script, checksum, status) ==
    [script |-> script.name,
     script_type |-> script.type,
     version |-> script.version,
     checksum |-> checksum,
     status |-> status]

\* the table before the first run: empty, or with the rows of scripts that
\* were applied earlier and are no longer in the repository
OldRow(name, version) ==
    [script |-> name, script_type |-> "V", version |-> version, checksum |-> sha224(Text_S),
     status |-> "Success"]

InitialHistories ==
    {<<>>,
     <<OldRow(V1_0_3__old, <<"1", ".", "0", ".", "3">>)>>,
     <<OldRow(V1_0_3__old, <<"1", ".", "0", ".", "3">>), OldRow(V3__old, <<"3">>)>>}

\* the rows of one script type that record a success, oldest first
RECURSIVE SuccessRows(_, _)
SuccessRows(rows, type) ==
    IF rows = <<>> THEN <<>>
    ELSE (IF Head(rows).script_type = type /\ Head(rows).status = "Success" THEN <<Head(rows)>> ELSE <<>>)
         \o SuccessRows(Tail(rows), type)

\* the checksums of the rows of one script, newest first
RECURSIVE ChecksumsOf(_, _)
ChecksumsOf(rows, name) ==
    IF rows = <<>> THEN <<>>
    ELSE ChecksumsOf(Tail(rows), name)
         \o (IF Head(rows).script = name THEN <<Head(rows).checksum>> ELSE <<>>)

\* r_scripts_checksum is a dict or None
NoDict == [is_none |-> TRUE]
Dict(items) == [is_none |-> FALSE, items |-> items]

\* SnowflakeSession.get_script_metadata: (versioned_scripts,
\* r_scripts_checksum, max_published_version) read from the table; there
\* are no dicts of checksums to return before the table has a row
get_script_metadata(table) ==
    LET v_rows == SuccessRows(table, "V")
        r_rows == SuccessRows(table, "R")
        LastRow(name) == v_rows[CHOOSE i \in 1..Len(v_rows) :
                            /\ v_rows[i].script = name
                            /\ \A j \in (i + 1)..Len(v_rows) : v_rows[j].script # name]
    IN  IF table = <<>>
        THEN [versioned_scripts |-> <<>>, r_scripts_checksum |-> NoDict, max_published_version |-> None]
        ELSE [versioned_scripts |->
                [name \in {v_rows[i].script : i \in 1..Len(v_rows)} |->
                    [version |-> LastRow(name).version, script |-> name, checksum |-> LastRow(name).checksum]],
              r_scripts_checksum |->
                Dict([name \in {r_rows[i].script : i \in 1..Len(r_rows)} |-> ChecksumsOf(r_rows, name)]),
              max_published_version |->
                max_alphanumeric([i \in 1..Len(v_rows) |-> v_rows[i].version])]

\* SnowflakeSession.apply_change_script: the rows it appends to the table.
\* It is handed the script and the text to execute; nothing is executed or
\* written in a dry run.
apply_change_script(script, script_content, dry_run, result) ==
    IF dry_run THEN <<>>
    ELSE <<HistoryRow(script, sha224(script_content), IF result = "ok" THEN "Success" ELSE "Failed")>>

\* SnowflakeSession.record_change_history: the row it appends to the table
record_change_history(script, checksum, status) == <<HistoryRow(script, checksum, status)>>

\* ------------------------------------------------------------------------
\* cli_script_executor.py
\* ------------------------------------------------------------------------
\* bound of the model: the number of steps of a CLI script
MaxSteps == 2

\* an optional value: None, or the value
Absent == <<>>
Some(x) == <<x>>

\* str.split(): the words of s between runs of whitespace
RECURSIVE SplitFrom(_, _)
SplitFrom(s, word) ==
    IF s = <<>> THEN (IF word = <<>> THEN <<>> ELSE <<word>>)
    ELSE IF IsSpace(Head(s)) THEN (IF word = <<>> THEN <<>> ELSE <<word>>) \o SplitFrom(Tail(s), <<>>)
    ELSE SplitFrom(Tail(s), Append(word, Head(s)))
Split(s) == SplitFrom(s, <<>>)

\* " ".join(parts)
RECURSIVE JoinWords(_)
JoinWords(parts) ==
    IF parts = <<>> THEN <<>>
    ELSE IF Len(parts) = 1 THEN parts[1]
    ELSE parts[1] \o <<" ">> \o JoinWords(Tail(parts))

\* ALLOWED_CLI_TOOLS = frozenset({"snow"})
Snow == <<"s", "n", "o", "w">>
ALLOWED_CLI_TOOLS == {Snow}

\* the machine the executor runs on: the paths that exist, the directories
\* among them, and where the tools are installed
Bash == <<"b", "a", "s", "h">>
UsrBinSnow == <<"/", "u", "s", "r", "/", "b", "i", "n", "/", "s", "n", "o", "w">>
OptSnow == <<"/", "o", "p", "t", "/", "s", "n", "o", "w">>
BinBash == <<"/", "b", "i", "n", "/", "b", "a", "s", "h">>
ProjDir == <<"p", "r", "o", "j">>
NoDir == <<"n", "o", "d", "i", "r">>
ReadmeFile == <<"r", "e", "a", "d", "m", "e">>
ExistingPaths == {UsrBinSnow, BinBash, ProjDir, ReadmeFile}
Directories == {ProjDir}

\* shutil.which(cli): bash is always installed, snow when on_path says so
which(cli, on_path) ==
    IF cli = Snow /\ on_path THEN Some(UsrBinSnow)
    ELSE IF cli = Bash THEN Some(BinBash)
    ELSE Absent

\* the ValueError of the parser, and a value it returns
CliValueError(msg) == [kind |-> "error", type |-> "ValueError", error |-> msg]
CliValue(v) == [kind |-> "ok", value |-> v]

\* every tool is taken as it is written, allowed or not, found or not
_resolve_any_tool(cli, on_path) == CliValue(cli)

\* _resolve_cli_tool
_resolve_cli_tool(cli, on_path) ==
    IF Contains(cli, <<PathSep>>)
    THEN IF PathName(cli) \notin ALLOWED_CLI_TOOLS THEN CliValueError("is not supported")
         ELSE IF cli \notin ExistingPaths THEN CliValueError("does not exist")
         ELSE CliValue(cli)
    ELSE IF cli \notin ALLOWED_CLI_TOOLS THEN CliValueError("is not supported")
         ELSE IF which(cli, on_path) = Absent THEN CliValueError("not found in PATH")
         ELSE CliValue(which(cli, on_path)[1])

\* args of a step: absent, a string (promoted to a one-element list) or a
\* list, made a tuple of strings
ArgsOf(data) ==
    IF "args" \notin DOMAIN data THEN <<>>
    ELSE IF data.args.kind = "str" THEN <<data.args.value>>
    ELSE data.args.value

\* CLIStep.from_dict; an env that is absent or empty gives None; the
\* description takes no part in the execution and is left out of the step
CLIStep(data, cli_path) ==
    [cli |-> data.cli,
     cli_path |-> cli_path,
     command |-> data.command,
     args |-> ArgsOf(data),
     working_dir |-> IF "working_dir" \in DOMAIN data /\ data.working_dir # <<>>
                     THEN Some(data.working_dir) ELSE Absent,
     env |-> IF "env" \in DOMAIN data /\ DOMAIN data.env # {} THEN Some(data.env) ELSE Absent]

from_dict_resolved(data, resolved) ==
    IF resolved.kind = "error" THEN resolved
    ELSE IF "working_dir" \in DOMAIN data /\ data.working_dir # <<>>
            /\ data.working_dir \notin ExistingPaths
    THEN CliValueError("Working directory does not exist")
    ELSE IF "working_dir" \in DOMAIN data /\ data.working_dir # <<>>
            /\ data.working_dir \notin Directories
    THEN CliValueError("Working directory is not a directory")
    ELSE CliValue(CLIStep(data, resolved.value))

from_dict(data, on_path) ==
    IF "cli" \notin DOMAIN data THEN CliValueError("Step is missing required field 'cli'")
    ELSE IF "command" \notin DOMAIN data THEN CliValueError("Step is missing required field 'command'")
    ELSE from_dict_resolved(data, _resolve_cli_tool(data.cli, on_path))

\* parse_cli_script lines 167-175: the loop over steps_data from index i
RECURSIVE ParseSteps(_, _, _, _)
ParseStep(step, steps_data, i, parsed, on_path) ==
    IF step.kind = "error"
    THEN [kind |-> "error", type |-> "ValueError", error |-> "Invalid step at index", index |-> i,
          cause |-> step.error]
    ELSE ParseSteps(steps_data, i + 1, Append(parsed, step.value), on_path)

ParseSteps(steps_data, i, parsed, on_path) ==
    IF i >= Len(steps_data) THEN CliValue(parsed)
    ELSE ParseStep(from_dict(steps_data[i + 1], on_path), steps_data, i, parsed, on_path)

\* parse_cli_script on what yaml.safe_load makes of the content: a
\* YAMLError, a value that is not a dictionary, or a dictionary
parse_cli_script(document, on_path) ==
    IF document.kind = "YAMLError" THEN CliValueError("Invalid YAML in CLI script")
    ELSE IF document.kind # "dict"
    THEN CliValueError("CLI script must be a YAML dictionary with a 'steps' key")
    ELSE IF ~document.has_steps THEN CliValueError("CLI script is missing required 'steps' key")
    ELSE IF ~document.steps_is_list THEN CliValueError("'steps' must be a list of step definitions")
    ELSE IF document.steps = <<>> THEN CliValueError("'steps' list cannot be empty")
    ELSE ParseSteps(document.steps, 0, <<>>, on_path)

\* what subprocess.run can do: the process exits with a code and its
\* captured output, or the spawn raises
Text_out == <<"o", "u", "t">>
Text_err == <<" ", "e", "r", "r", "\n">>
ExitCodes == {0, 1, 2}
ProcessOutcomes ==
    [kind : {"exit"}, returncode : ExitCodes, stdout : {<<>>, Text_out}, stderr : {<<>>, Text_err, <<" ">>}]
    \cup {[kind |-> k, returncode |-> 0, stdout |-> <<>>, stderr |-> <<>>] :
            k \in {"FileNotFoundError", "PermissionError", "OSError"}}

\* str(n) for a number of one digit
Str(n) == Digits[n + 1]

\* CLIScriptExecutionError.__init__: the fields, and the message given to
\* Exception.__init__ (str(e)); messages are sequences of pieces of text
ErrorStr(script, step_index, error_message) ==
    <<"Failed to execute ", script.type, " CLI script '">> \o script.name \o <<"'">>
    \o (IF step_index = Absent THEN <<>> ELSE <<" (step ", Str(step_index[1] + 1), ")">>)
    \o <<": ">> \o error_message

CLIScriptExecutionError(script, error_message, cli_tool, command, exit_code, stdout, stderr, step_index, original_exception) ==
    [type |-> "CLIScriptExecutionError",
     script_name |-> script.name,
     script_path |-> script.file_path,
     script_type |-> script.type,
     error_message |-> error_message,
     cli_tool |-> cli_tool,
     command |-> command,
     exit_code |-> exit_code,
     stdout |-> stdout,
     stderr |-> stderr,
     step_index |-> step_index,
     original_exception |-> original_exception,
     str |-> ErrorStr(script, step_index, error_message)]

\* execute_cli_step lines 202-204: argv and the command string
cmd_parts(step) == <<step.cli_path>> \o Split(step.command) \o step.args
cmd_str(step) == JoinWords(<<step.cli>> \o Split(step.command) \o step.args)

\* execute_cli_step lines 254-272: the error raised inside the try block
\* when the process exits with a code other than 0
ExitError(step, step_index, script, result) ==
    CLIScriptExecutionError(
        script,
        IF result.stderr # <<>> THEN Strip(result.stderr)
        ELSE <<"Command exited with code ", Str(result.returncode)>>,
        Some(step.cli), Some(cmd_str(step)), Some(result.returncode), Some(result.stdout),
        Some(result.stderr), Some(step_index), Absent)

\* execute_cli_step lines 310-321: except Exception, the last handler of the
\* try block; the CLIScriptExecutionError raised at line 261 is an Exception
\* and ends here as well
HandleExcept(step, step_index, script, raised) ==
    CLIScriptExecutionError(
        script, <<"Unexpected error: ">> \o raised.str,
        Some(step.cli), Some(cmd_str(step)), Absent, Absent, Absent, Some(step_index),
        Some(raised.type))

\* execute_cli_step lines 228-231: env = os.environ.copy(), updated with
\* the env of the step; environments are functions from names to values
StepEnviron(environ, step) ==
    IF step.env = Absent THEN environ
    ELSE [name \in DOMAIN environ \cup DOMAIN step.env[1] |->
             IF name \in DOMAIN step.env[1] THEN step.env[1][name] ELSE environ[name]]

\* one environment map shared by the steps: os.environ itself is updated
SharedEnviron(environ, step) == StepEnviron(environ, step)

\* execute_cli_step line 229: the update is made on a copy, so os.environ
\* is after the step what it was before
EnvironAfterStep(environ, step) == environ

\* the dry-run flag is ignored and the command is executed
NeverDryRun(dry_run) == FALSE

\* execute_cli_step line 216: in a dry run the command is logged, not run
IsDryRun(dry_run) == dry_run

\* execute_cli_step: None in a dry run, the CompletedProcess, or the error
execute_cli_step(step, step_index, script, dry_run, outcome) ==
    IF IsDryRun(dry_run) THEN [kind |-> "return", value |-> Absent]
    ELSE IF outcome.kind = "exit" /\ outcome.returncode = 0
    THEN [kind |-> "return", value |-> Some(outcome)]
    ELSE IF outcome.kind = "exit"
    THEN [kind |-> "raise",
          error |-> HandleExcept(step, step_index, script, ExitError(step, step_index, script, outcome))]
    ELSE IF outcome.kind = "FileNotFoundError"
    THEN [kind |-> "raise",
          error |-> CLIScriptExecutionError(
                        script, <<"File not found during CLI execution: ">>,
                        Some(step.cli), Some(cmd_str(step)), Absent, Absent, Absent, Some(step_index),
                        Some(outcome.kind))]
    ELSE IF outcome.kind = "PermissionError"
    THEN [kind |-> "raise",
          error |-> CLIScriptExecutionError(
                        script, <<"Permission denied executing '">> \o step.cli \o <<"'">>,
                        Some(step.cli), Some(cmd_str(step)), Absent, Absent, Absent, Some(step_index),
                        Some(outcome.kind))]
    ELSE [kind |-> "raise",
          error |-> HandleExcept(step, step_index, script,
                                 [type |-> outcome.kind, str |-> <<"spawn failed">>])]

\* round(x) of a duration counted in half seconds: to the nearest integer,
\* a half to the even one
Round(halves) ==
    LET q == halves \div 2
    IN  IF halves % 2 = 0 THEN q ELSE IF q % 2 = 0 THEN q ELSE q + 1

\* ------------------------------------------------------------------------
\* deploy.py
\* ------------------------------------------------------------------------
VARIABLES
    config,                  \* the DeployConfig of the runs
    files,                   \* root_folder: file name -> text of the file
    history,                 \* the change-history table, oldest row first
    pc,                      \* "idle", "running", "done" (deploy returned) or "raised"
    versioned_scripts,       \* deploy's locals, as named in the code
    r_scripts_checksum,
    max_published_version,
    all_scripts,             \* the dict of the discovered scripts, by lowercased name
    all_script_names_sorted,
    scripts_skipped,
    scripts_applied,
    scripts_failed,
    failed_scripts,
    error,                   \* the exception deploy raised
    outcomes,                \* what the loop did with each script so far, in plan order
    calls,                   \* the calls of this run to the session and the CLI executor
    edited,                  \* files changed since the current (or last) run started
    edited_before,           \* files changed between the previous run and this one
    prev,                    \* the previous run: how it ended and what it did
    runs,                    \* number of runs started
    edits,                   \* number of file changes made
    session_errors           \* number of statements the warehouse rejected

\* execute_cli_script, called on its own
VARIABLES
    exec_pc,                 \* "idle", "running", "returned" or "raised"
    exec_args,               \* the arguments of the call: script, content (parsed YAML), dry_run
    exec_steps,              \* steps, the result of parse_cli_script
    exec_i,                  \* i, the index of the step the loop is at
    subprocess_runs,         \* every subprocess.run so far: its argv and how it ended
    step_results,            \* what every call of execute_cli_step returned
    exec_error,              \* the exception execute_cli_script raised
    execution_time,          \* what execute_cli_script returned
    start_time,              \* time.time() before the loop
    clock,                   \* time.time(), in half seconds
    snow_on_path,            \* whether snow is installed on the machine
    os_environ,              \* os.environ, the environment of the process
    render_script,           \* JinjaTemplateProcessor.render called on its own: the script name,
    render_template,         \* the text of the template,
    render_variables,        \* the variables handed to render,
    render_raw_content,      \* the text template.render gave,
    render_result,           \* and what render returned or raised
    prepare_content,         \* prepare_for_execution: the content it was called with
    prepare_result,          \* and what it returned
    prepare_again,           \* what prepare_for_execution returned for its own result
    root_directory,          \* get_all_scripts_recursively called on its own: the
                             \* file paths root_directory.glob("**/*") yields, in order
    discovery_result,        \* and what it returned or raised
    versions,                \* version.py called on its own: a list of versions,
    alphanum_keys,           \* the get_alphanum_key of each of them
    max_version              \* and what max_alphanumeric returned for the list

executor_vars == <<exec_pc, exec_args, exec_steps, exec_i, subprocess_runs, step_results, exec_error,
                   execution_time, start_time, clock, snow_on_path, os_environ>>

deploy_vars == <<config, files, history, pc, versioned_scripts, r_scripts_checksum, max_published_version,
                 all_scripts, all_script_names_sorted, scripts_skipped, scripts_applied, scripts_failed,
                 failed_scripts, error, outcomes, calls, edited, edited_before, prev, runs, edits,
                 session_errors>>

render_vars == <<render_script, render_template, render_variables, render_raw_content, render_result,
                 prepare_content, prepare_result, prepare_again>>

discovery_vars == <<root_directory, discovery_result>>

version_vars == <<versions, alphanum_keys, max_version>>

vars == <<deploy_vars, executor_vars, render_vars, discovery_vars, version_vars>>

run_locals == <<versioned_scripts, r_scripts_checksum, max_published_version, all_scripts,
                all_script_names_sorted>>

NoError == [type |-> "none"]
NoRun == [pc |-> "none", outcomes |-> <<>>, edited_before |-> {}]

\* the orders in which the directory walk can yield a set of files
Orderings(S) == {o \in [1..Cardinality(S) -> S] : \A i, j \in 1..Cardinality(S) : i # j => o[i] # o[j]}

\* nothing has called get_all_scripts_recursively on its own
NotDiscovered == [kind |-> "none"]
DiscoveryIdle == root_directory = <<>> /\ discovery_result = NotDiscovered

\* nothing has called the functions of version.py on their own
VersionIdle == versions = <<>> /\ alphanum_keys = <<>> /\ max_version = <<>>

\* the environment of the process: {"HOME": "h"}, and the same with {"K": "0"}
ProcessEnviron == [HOME |-> <<"h">>]
ProcessEnvironWithKey == [HOME |-> <<"h">>, K |-> <<"0">>]

\* nothing has called execute_cli_script
ExecutorIdle ==
    /\ exec_pc = "idle"
    /\ exec_args = Absent
    /\ exec_steps = <<>>
    /\ exec_i = 0
    /\ subprocess_runs = <<>>
    /\ step_results = <<>>
    /\ exec_error = NoError
    /\ execution_time = Absent
    /\ start_time = 0
    /\ clock = 0

\* nothing has called deploy
DeployIdle ==
    /\ pc = "idle"
    /\ versioned_scripts = <<>>
    /\ r_scripts_checksum = NoDict
    /\ max_published_version = <<>>
    /\ all_scripts = <<>>
    /\ all_script_names_sorted = <<>>
    /\ scripts_skipped = 0
    /\ scripts_applied = 0
    /\ scripts_failed = 0
    /\ failed_scripts = <<>>
    /\ error = NoError
    /\ outcomes = <<>>
    /\ calls = <<>>
    /\ edited = {}
    /\ edited_before = {}
    /\ prev = NoRun
    /\ runs = 0
    /\ edits = 0
    /\ session_errors = 0

\* render has not been called on its own
NotRendered == [kind |-> "none"]

\* no variables
NoVariables == [name \in {} |-> <<>>]

RenderIdle ==
    /\ render_script = <<>>
    /\ render_template = <<>>
    /\ render_variables = NoVariables
    /\ render_raw_content = <<>>
    /\ render_result = NotRendered
    /\ prepare_content = Absent
    /\ prepare_result = Absent
    /\ prepare_again = Absent

Init ==
    /\ config \in Configs
    /\ \E repo \in SUBSET FileUniverse :
         /\ Cardinality(repo) <= MaxFiles
         /\ files = [f \in repo |-> InitialContent(f)]
    /\ history \in InitialHistories
    /\ DeployIdle
    /\ ExecutorIdle
    /\ snow_on_path = TRUE
    /\ os_environ = ProcessEnviron
    /\ RenderIdle
    /\ DiscoveryIdle
    /\ VersionIdle

\* [script for script in all_script_names if script[0] == c]
RECURSIVE NamesStartingWith(_, _)
NamesStartingWith(names, c) ==
    IF names = <<>> THEN <<>>
    ELSE (IF Head(names)[1] = c THEN <<Head(names)>> ELSE <<>>) \o NamesStartingWith(Tail(names), c)

\* deploy.py lines 47-53: the execution plan
ExecutionPlan(found) ==
    LET all_script_names == Keys(found)
    IN  sorted_alphanumeric(NamesStartingWith(all_script_names, "v"))
        \o sorted_alphanumeric(NamesStartingWith(all_script_names, "r"))
        \o sorted_alphanumeric(NamesStartingWith(all_script_names, "a"))

\* the repositories explored and the orders of their directory walks
Repositories == {repo \in SUBSET FileUniverse : Cardinality(repo) <= MaxFiles}
WalkOrders == {file_paths : file_paths \in UNION {Orderings(repo) : repo \in Repositories}}
Texts == EditContents \cup {InitialContent(f) : f \in FileUniverse}

\* get_all_scripts_recursively, render and prepare_for_execution are
\* functions of their arguments: their values on the files and texts of
\* the model, computed once
DiscoveredScripts == [file_paths \in WalkOrders |-> get_all_scripts_recursively(file_paths)]
RenderedTexts == [f \in FileUniverse |-> [text \in Texts |-> render(f, text)]]
ExecutableTexts ==
    [f \in FileUniverse |->
        [text \in {RenderedTexts[f][t].content : t \in {u \in Texts : RenderedTexts[f][u].kind = "ok"}} |->
            prepare_for_execution(text, f)]]

\* the dicts and the execution plans of the discovered scripts, computed once
ScriptsByName ==
    [file_paths \in WalkOrders |->
        IF DiscoveredScripts[file_paths].kind = "ok"
        THEN LET all_files == DiscoveredScripts[file_paths].all_files
             IN  [k \in {Lower(all_files[i].name) : i \in 1..Len(all_files)} |-> Lookup(all_files, k)]
        ELSE <<>>]

ExecutionPlans ==
    [file_paths \in WalkOrders |->
        IF DiscoveredScripts[file_paths].kind = "ok"
        THEN ExecutionPlan(DiscoveredScripts[file_paths].all_files)
        ELSE <<>>]

\* deploy.py lines 18-58: read the metadata, discover and sort the scripts
StartDeploy ==
    /\ pc \in {"idle", "done", "raised"}
    /\ runs < MaxRuns
    /\ runs' = runs + 1
    /\ prev' = [pc |-> pc, outcomes |-> outcomes, edited_before |-> edited_before]
    /\ edited_before' = edited
    /\ edited' = {}
    /\ LET metadata == get_script_metadata(history)
       IN  /\ versioned_scripts' = metadata.versioned_scripts
           /\ r_scripts_checksum' = metadata.r_scripts_checksum
           /\ max_published_version' = get_alphanum_key(metadata.max_published_version)
    /\ scripts_skipped' = 0
    /\ scripts_applied' = 0
    /\ scripts_failed' = 0
    /\ failed_scripts' = <<>>
    /\ outcomes' = <<>>
    /\ calls' = <<>>
    /\ \E file_paths \in Orderings(DOMAIN files) :
         LET found == DiscoveredScripts[file_paths]
         IN  IF found.kind = "error"
             THEN /\ pc' = "raised"
                  /\ error' = [type |-> "ValueError", message |-> found.error, script |-> found.file_path]
                  /\ all_scripts' = <<>>
                  /\ all_script_names_sorted' = <<>>
             ELSE /\ pc' = "running"
                  /\ error' = NoError
                  /\ all_scripts' = ScriptsByName[file_paths]
                  /\ all_script_names_sorted' = ExecutionPlans[file_paths]
    /\ UNCHANGED <<config, files, history, edits, session_errors, executor_vars, render_vars, discovery_vars, version_vars>>

\* applied, and with the checksum of the record
AppliedWithSameChecksum(script) ==
    /\ script.name \in DOMAIN versioned_scripts
    /\ versioned_scripts[script.name].checksum
         = sha224(RenderedTexts[script.file_path][files[script.file_path]].content)

\* deploy.py line 83: versioned_scripts.get(script.name) is not None
AlreadyApplied(script) == script.name \in DOMAIN versioned_scripts

\* the ordering condition with the flag the wrong way round
IgnoredWhenOutOfOrder(script) ==
    /\ config.out_of_order
    /\ KeyLeq(get_alphanum_key(script.version), max_published_version)

\* the ordering condition without the flag
IgnoredWhateverTheFlag(script) ==
    KeyLeq(get_alphanum_key(script.version), max_published_version)

\* the ordering condition with the operands exchanged
IgnoredWhenNewer(script) ==
    /\ ~config.out_of_order
    /\ KeyLeq(max_published_version, get_alphanum_key(script.version))

\* deploy.py lines 94-95: the version-ordering condition. max_published_version
\* is the key computed at line 40, a list, so the test for None never fails.
IgnoredByOrdering(script) ==
    /\ ~config.out_of_order
    /\ KeyLeq(get_alphanum_key(script.version), max_published_version)

\* the raise made subject to the continue policy of V scripts
RaiseUnlessContinue ==
    config.raise_exception_on_ignored_versioned_script /\ ~config.continue_versioned_on_error

\* deploy.py line 96
RaiseOnIgnored == config.raise_exception_on_ignored_versioned_script

\* the comparison with the oldest checksum of the entry instead of index 0
RepeatableUnchangedOldest(script, checksum_current) ==
    LET checksum_last ==
            IF ~r_scripts_checksum.is_none /\ script.name \in DOMAIN r_scripts_checksum.items
            THEN r_scripts_checksum.items[script.name][Len(r_scripts_checksum.items[script.name])]
            ELSE <<>>
    IN  checksum_current = checksum_last

\* deploy.py lines 112-118: the checksum of an R script equals the last one
RepeatableUnchanged(script, checksum_current) ==
    LET checksum_last ==
            IF ~r_scripts_checksum.is_none /\ script.name \in DOMAIN r_scripts_checksum.items
            THEN r_scripts_checksum.items[script.name][1]
            ELSE <<>>
    IN  checksum_current = checksum_last

\* one continue flag taken to cover every kind
should_continue_any(script) ==
    \/ config.continue_versioned_on_error
    \/ config.continue_repeatable_on_error
    \/ config.continue_always_on_error

\* deploy.py lines 122-126
should_continue(script) ==
    \/ script.type = "V" /\ config.continue_versioned_on_error
    \/ script.type = "R" /\ config.continue_repeatable_on_error
    \/ script.type = "A" /\ config.continue_always_on_error

\* deploy.py lines 128-133
is_out_of_order(script) ==
    /\ script.type = "V"
    /\ config.out_of_order
    /\ KeyLeq(get_alphanum_key(script.version), max_published_version)

\* the keyword arguments of the call at deploy.py lines 146-153 and the
\* parameters of execute_cli_script (cli_script_executor.py lines 324-330)
execute_cli_script_kwargs == {"script", "content", "root_folder", "dry_run", "log", "out_of_order"}
execute_cli_script_params == {"script", "content", "root_folder", "dry_run", "log"}

\* How the call of execute_cli_script can end: a keyword the function does
\* not take makes the call itself raise TypeError; otherwise the script
\* runs, fails to parse (ValueError) or fails in a step.
CLIResults ==
    IF execute_cli_script_kwargs \subseteq execute_cli_script_params
    THEN {"ok", "ValueError", "CLIScriptExecutionError"}
    ELSE {"TypeError"}

\* What the steps of a CLI script do when execute_cli_script gets to run
\* them: they succeed, the content does not parse, or a step fails (no step
\* is executed in a dry run)
CLIStepOutcomes ==
    IF config.dry_run THEN {"ok", "ValueError"} ELSE {"ok", "ValueError", "CLIScriptExecutionError"}

\* How session.apply_change_script can end: nothing is executed in a dry run
SQLResults == IF config.dry_run \/ session_errors >= MaxSessionErrors THEN {"ok"} ELSE {"ok", "Exception"}

\* the calls of a script are made a second time before the loop goes on
NextScriptCalledTwice(outcome, new_calls, new_rows) ==
    /\ outcomes' = Append(outcomes, outcome)
    /\ calls' = calls \o new_calls \o new_calls
    /\ history' = history \o new_rows
    /\ pc' = "running"
    /\ error' = NoError

\* the loop goes on to the next script: continue, or the end of the body
NextScript(outcome, new_calls, new_rows) ==
    /\ outcomes' = Append(outcomes, outcome)
    /\ calls' = calls \o new_calls
    /\ history' = history \o new_rows
    /\ pc' = "running"
    /\ error' = NoError

\* an exception leaves deploy from inside the loop
RaiseFromLoop(outcome, new_calls, new_rows, exception) ==
    /\ outcomes' = Append(outcomes, outcome)
    /\ calls' = calls \o new_calls
    /\ history' = history \o new_rows
    /\ pc' = "raised"
    /\ error' = exception

\* continue without scripts_skipped += 1
SkipScriptUncounted(script) ==
    /\ NextScript([script |-> script.name, result |-> "skipped"], <<>>, <<>>)
    /\ UNCHANGED <<scripts_skipped, scripts_applied, scripts_failed, failed_scripts, session_errors>>

\* deploy.py lines 90, 106, 120: scripts_skipped += 1; continue
SkipScript(script) ==
    /\ scripts_skipped' = scripts_skipped + 1
    /\ NextScript([script |-> script.name, result |-> "skipped"], <<>>, <<>>)
    /\ UNCHANGED <<scripts_applied, scripts_failed, failed_scripts, session_errors>>

\* deploy.py lines 134-192: prepare, dispatch to the session or to the CLI
\* executor, count the result
DispatchScript(script, content, checksum_current) ==
    LET executable_content == ExecutableTexts[script.file_path][content]
        call == [fn |-> IF script.format = "CLI" THEN "execute_cli_script" ELSE "apply_change_script",
                 script |-> script.name,
                 steps |-> "none",
                 dry_run |-> config.dry_run,
                 out_of_order |-> is_out_of_order(script)]
        record(status, error_message) ==
            [fn |-> "record_change_history", script |-> script.name,
             checksum |-> checksum_current, status |-> status,
             error_message |-> error_message]
    IN  \E result \in IF script.format = "CLI" THEN CLIResults ELSE SQLResults,
           steps_outcome \in IF script.format = "CLI" THEN CLIStepOutcomes ELSE {"none"} :
          LET new_calls ==
                  <<[call EXCEPT !.steps = steps_outcome]>> \o
                  (IF script.format = "CLI" /\ ~config.dry_run /\ result = "ok"
                   THEN <<record("Success", Absent)>>
                   ELSE IF script.format = "CLI" /\ ~config.dry_run /\ result = "CLIScriptExecutionError"
                   THEN <<record("Failed", Some(result))>>
                   ELSE <<>>)
              new_rows ==
                  IF script.format = "SQL"
                  THEN apply_change_script(script, executable_content, config.dry_run, result)
                  ELSE IF ~config.dry_run /\ result = "ok"
                  THEN record_change_history(script, checksum_current, "Success")
                  ELSE IF ~config.dry_run /\ result = "CLIScriptExecutionError"
                  THEN record_change_history(script, checksum_current, "Failed")
                  ELSE <<>>
          IN  /\ script.format = "CLI" /\ result # "TypeError" => result = steps_outcome
              /\ IF result = "ok"
                 THEN /\ scripts_applied' = scripts_applied + 1
                      /\ NextScript([script |-> script.name, result |-> "applied"], new_calls, new_rows)
                      /\ UNCHANGED <<scripts_skipped, scripts_failed, failed_scripts, session_errors>>
                 ELSE /\ scripts_failed' = scripts_failed + 1
                      /\ failed_scripts' = Append(failed_scripts, script.name)
                      /\ session_errors' = IF script.format = "SQL" THEN session_errors + 1
                                           ELSE session_errors
                      /\ IF should_continue(script)
                         THEN NextScript([script |-> script.name, result |-> "failed"], new_calls, new_rows)
                         ELSE RaiseFromLoop([script |-> script.name, result |-> "failed"], new_calls,
                                            new_rows,
                                            [type |-> result, message |-> "dispatch failed",
                                             script |-> script.name])
                      /\ UNCHANGED <<scripts_skipped, scripts_applied>>

\* deploy.py lines 61-192: one iteration of the loop over the plan
ProcessScript ==
    /\ pc = "running"
    /\ Len(outcomes) < Len(all_script_names_sorted)
    /\ LET script_name == all_script_names_sorted[Len(outcomes) + 1]
           script == all_scripts[script_name]
           rendered == RenderedTexts[script.file_path][files[script.file_path]]
           checksum_current == sha224(rendered.content)
       IN  IF rendered.kind = "error"
           THEN /\ RaiseFromLoop([script |-> script.name, result |-> "render error"], <<>>, <<>>,
                                 [type |-> "ValueError", message |-> rendered.error, script |-> script.name])
                /\ UNCHANGED <<scripts_skipped, scripts_applied, scripts_failed, failed_scripts, session_errors>>
           ELSE IF script.type = "V" /\ AlreadyApplied(script)
           THEN SkipScript(script)
           ELSE IF script.type = "V" /\ IgnoredByOrdering(script)
           THEN IF RaiseOnIgnored
                THEN /\ RaiseFromLoop([script |-> script.name, result |-> "never applied"], <<>>, <<>>,
                                      [type |-> "ValueError",
                                       message |-> "Versioned script will never be applied",
                                       script |-> script.name])
                     /\ UNCHANGED <<scripts_skipped, scripts_applied, scripts_failed, failed_scripts,
                                    session_errors>>
                ELSE SkipScript(script)
           ELSE IF script.type = "R" /\ RepeatableUnchanged(script, checksum_current)
           THEN SkipScript(script)
           ELSE DispatchScript(script, rendered.content, checksum_current)
    /\ UNCHANGED <<config, files, run_locals, edited, edited_before, prev, runs, edits, executor_vars, render_vars, discovery_vars, version_vars>>

\* the summary raised only when more than one script failed
SeveralScriptsFailed == scripts_failed > 1

\* deploy.py line 194
SomeScriptFailed == scripts_failed > 0

\* deploy.py lines 194-208: the summary exception, or the normal return
FinishDeploy ==
    /\ pc = "running"
    /\ Len(outcomes) = Len(all_script_names_sorted)
    /\ IF SomeScriptFailed
       THEN /\ pc' = "raised"
            /\ error' = [type |-> "Exception", message |-> "change script(s) failed", script |-> failed_scripts]
       ELSE /\ pc' = "done"
            /\ error' = NoError
    /\ UNCHANGED <<config, files, history, run_locals, scripts_skipped, scripts_applied, scripts_failed,
                   failed_scripts, outcomes, calls, edited, edited_before, prev, runs, edits, session_errors,
                   executor_vars, render_vars, discovery_vars, version_vars>>

\* between two runs somebody changes the text of a script file
EditScript ==
    /\ pc \in {"done", "raised"}
    /\ edits < MaxEdits
    /\ \E f \in DOMAIN files, text \in EditContents :
         /\ text # files[f]
         /\ files' = [files EXCEPT ![f] = text]
         /\ edited' = edited \cup {f}
    /\ edits' = edits + 1
    /\ UNCHANGED <<config, history, pc, run_locals, scripts_skipped, scripts_applied, scripts_failed,
                   failed_scripts, error, outcomes, calls, edited_before, prev, runs, session_errors,
                   executor_vars, render_vars, discovery_vars, version_vars>>

\* ------------------------------------------------------------------------
\* execute_cli_script called on its own (as the tests of the executor do)
\* ------------------------------------------------------------------------
\* step definitions of the CLI scripts explored
Cmd_sql == <<"s", "q", "l", " ", " ", "-", "q">>
Cmd_x == <<"x">>
StepSnow ==
    [cli |-> Snow, command |-> Cmd_sql, args |-> [kind |-> "list", value |-> <<<<"a">>, <<"b">>>>],
     env |-> [K |-> <<"1">>]]
StepSnowPath ==
    [cli |-> UsrBinSnow, command |-> Cmd_x, args |-> [kind |-> "str", value |-> <<"y">>],
     working_dir |-> ProjDir, env |-> [HOME |-> <<"p">>, L |-> <<"2">>]]
StepSnowPlain == [cli |-> Snow, command |-> Cmd_x]
StepBash == [cli |-> Bash, command |-> Cmd_x]
StepBinBash == [cli |-> BinBash, command |-> Cmd_x]
StepOptSnow == [cli |-> OptSnow, command |-> Cmd_x]
StepNoCli == [command |-> Cmd_x]
StepNoCommand == [cli |-> Snow]
StepNoDir == [cli |-> Snow, command |-> Cmd_x, working_dir |-> NoDir]
StepReadme == [cli |-> Snow, command |-> Cmd_x, working_dir |-> ReadmeFile]

StepUniverse ==
    {StepSnow, StepSnowPath, StepSnowPlain, StepBash, StepBinBash, StepOptSnow, StepNoCli, StepNoCommand, StepNoDir,
     StepReadme}

\* what yaml.safe_load makes of the content of a script
Document(kind, has_steps, steps_is_list, step_list) ==
    [kind |-> kind, has_steps |-> has_steps, steps_is_list |-> steps_is_list, steps |-> step_list]

Documents ==
    {Document("YAMLError", FALSE, FALSE, <<>>),
     Document("list", FALSE, FALSE, <<>>),
     Document("dict", FALSE, FALSE, <<>>),
     Document("dict", TRUE, FALSE, <<>>),
     Document("dict", TRUE, TRUE, <<>>)}
    \cup {Document("dict", TRUE, TRUE, step_list) :
            step_list \in UNION {[1..n -> StepUniverse] : n \in 1..MaxSteps}}

\* in a dry run no process runs: the outcome plays no part
NoProcess == [kind |-> "exit", returncode |-> 0, stdout |-> <<>>, stderr |-> <<>>]

\* the time one step can take, in half seconds
StepDurations == {0, 1}

\* execute_cli_script lines 348-368: parse the content, start the clock
CallExecuteCliScript ==
    /\ exec_pc = "idle"
    /\ \E document \in Documents, dry_run \in BOOLEAN :
         LET parsed == parse_cli_script(document, snow_on_path)
         IN  /\ exec_args' = Some([script |-> script_of_file(A__x_cli), content |-> document,
                                   dry_run |-> dry_run])
             /\ IF parsed.kind = "error"
                THEN /\ exec_pc' = "raised"
                     /\ exec_error' = parsed
                     /\ exec_steps' = <<>>
                ELSE /\ exec_pc' = "running"
                     /\ exec_error' = NoError
                     /\ exec_steps' = parsed.value
    /\ exec_i' = 0
    /\ start_time' = clock
    /\ UNCHANGED <<subprocess_runs, step_results, execution_time, clock, snow_on_path, os_environ, deploy_vars, render_vars, discovery_vars, version_vars>>

\* the exception of a step is swallowed and the loop goes on
StepNeverEndsLoop(result) == FALSE

\* execute_cli_script lines 369-376: an exception of execute_cli_step is not
\* caught and ends the loop
StepEndsLoop(result) == result.kind = "raise"

\* execute_cli_script lines 369-376: one iteration of the loop
ExecuteCliStep ==
    /\ exec_pc = "running"
    /\ exec_i < Len(exec_steps)
    /\ \E outcome \in ProcessOutcomes, duration \in StepDurations :
         LET step == exec_steps[exec_i + 1]
             dry_run == exec_args[1].dry_run
             result == execute_cli_step(step, exec_i, exec_args[1].script, dry_run, outcome)
         IN  /\ IsDryRun(dry_run) => outcome = NoProcess
             /\ subprocess_runs' = IF IsDryRun(dry_run) THEN subprocess_runs
                                   ELSE Append(subprocess_runs, [argv |-> cmd_parts(step),
                                                                 env |-> StepEnviron(os_environ, step),
                                                                 outcome |-> outcome])
             /\ os_environ' = IF IsDryRun(dry_run) THEN os_environ ELSE EnvironAfterStep(os_environ, step)
             /\ clock' = clock + duration
             /\ IF StepEndsLoop(result)
                THEN /\ exec_pc' = "raised"
                     /\ exec_error' = result.error
                     /\ UNCHANGED <<exec_i, step_results>>
                ELSE /\ exec_i' = exec_i + 1
                     /\ step_results' = Append(step_results, result)
                     /\ UNCHANGED <<exec_pc, exec_error>>
    /\ UNCHANGED <<exec_args, exec_steps, execution_time, start_time, snow_on_path, deploy_vars, render_vars, discovery_vars, version_vars>>

\* execute_cli_script lines 378-386: the duration, rounded, is returned
FinishCliScript ==
    /\ exec_pc = "running"
    /\ exec_i = Len(exec_steps)
    /\ execution_time' = Some(Round(clock - start_time))
    /\ exec_pc' = "returned"
    /\ UNCHANGED <<exec_args, exec_steps, exec_i, subprocess_runs, step_results, exec_error, start_time,
                   clock, snow_on_path, os_environ, deploy_vars, render_vars, discovery_vars, version_vars>>

Next == StartDeploy \/ ProcessScript \/ FinishDeploy \/ EditScript

Spec == Init /\ [][Next]_vars

\* The executor and deploy on a machine with or without snow: either
\* execute_cli_script is called on its own, or deploy runs on a repository
\* with a CLI script and always-scripts.
CliConfigs ==
    {c \in Configs :
        /\ ~c.out_of_order
        /\ ~c.raise_exception_on_ignored_versioned_script
        /\ ~c.continue_versioned_on_error
        /\ ~c.continue_repeatable_on_error}

InitCLI ==
    /\ config \in CliConfigs
    /\ \E repo \in {{A__x_cli}, {A__x_cli, A__y}} : files = [f \in repo |-> InitialContent(f)]
    /\ history = <<>>
    /\ DeployIdle
    /\ ExecutorIdle
    /\ snow_on_path \in BOOLEAN
    /\ os_environ \in {ProcessEnviron, ProcessEnvironWithKey}
    /\ RenderIdle
    /\ DiscoveryIdle
    /\ VersionIdle

NextCLI ==
    \/ pc = "idle" /\ CallExecuteCliScript
    \/ ExecuteCliStep
    \/ FinishCliScript
    \/ exec_pc = "idle" /\ StartDeploy
    \/ ProcessScript
    \/ FinishDeploy
    \/ EditScript

SpecCLI == InitCLI /\ [][NextCLI]_vars

\* JinjaTemplateProcessor.render and prepare_for_execution called on their
\* own, for a SQL and for a CLI script, on templates of several kinds:
\* texts of up to MaxRenderLen characters, and texts of a few tokens
MaxRenderLen == 4
MaxCommentTokens == 5
MaxTemplateTokens == 3

RenderAlphabet == {";", " ", "\n", "S"}
BomAlphabet == {BOM, ";", " ", "S"}

CommentTokens == {<<"S">>, <<";">>, <<"\n">>, <<"-", "-">>, <<"/", "*">>, <<"*", "/">>}

\* "schemachange: trailing comment fix"
FixMarker == SubSeq(TrailingCommentFix, 15, Len(TrailingCommentFix))

\* what stands before and after the marker in a template
MarkerTokens == {<<"S">>, <<";">>, <<"\n", "-", "-">>}

\* "-- schemachange-no-jinja\n"
NoJinjaMarker ==
    <<"-", "-", " ", "s", "c", "h", "e", "m", "a", "c", "h", "a", "n", "g", "e", "-",
      "n", "o", "-", "j", "i", "n", "j", "a", "\n">>

\* "{{ n }}" and "{{ u }}": n is the variable of RenderVariables, u is undefined
ExprN == <<"{", "{", " ", "n", " ", "}", "}">>
ExprU == <<"{", "{", " ", "u", " ", "}", "}">>

JinjaTokens == {ExprN, ExprU, <<"S">>, <<";">>}

\* {"n": "r"}
RenderVariables == [name \in {<<"n">>} |-> <<"r">>]

\* the concatenation of a sequence of texts
RECURSIVE Flatten(_)
Flatten(tokens) == IF tokens = <<>> THEN <<>> ELSE Head(tokens) \o Flatten(Tail(tokens))

TokenTexts(tokens, max) == {Flatten(t) : t \in UNION {[1..n -> tokens] : n \in 0..max}}

PlainTemplates ==
    UNION {[1..n -> RenderAlphabet] : n \in 0..MaxRenderLen}
    \cup UNION {[1..n -> BomAlphabet] : n \in 0..MaxRenderLen}
    \cup TokenTexts(CommentTokens, MaxCommentTokens)
    \cup {before \o FixMarker \o after :
              before \in TokenTexts(MarkerTokens, MaxTemplateTokens), after \in {<<>>, <<";">>, <<"\n">>}}

JinjaTemplates ==
    {marker \o text : marker \in {<<>>, NoJinjaMarker}, text \in TokenTexts(JinjaTokens, MaxTemplateTokens)}

RenderInputs == PlainTemplates \cup JinjaTemplates

InitRender ==
    /\ config = CHOOSE c \in CliConfigs : ~c.dry_run
    /\ files = [f \in {R__z} |-> InitialContent(f)]
    /\ history = <<>>
    /\ DeployIdle
    /\ ExecutorIdle
    /\ snow_on_path = TRUE
    /\ os_environ = ProcessEnviron
    /\ render_script \in {R__z, A__x_cli}
    /\ \/ render_template \in PlainTemplates /\ render_variables = NoVariables
       \/ render_template \in JinjaTemplates /\ render_variables \in {NoVariables, RenderVariables}
    /\ render_raw_content = <<>>
    /\ render_result = NotRendered
    /\ prepare_content = Absent
    /\ prepare_result = Absent
    /\ prepare_again = Absent
    /\ DiscoveryIdle
    /\ VersionIdle

\* JinjaTemplateProcessor.render lines 50-98; an exception it raises is a
\* result of kind "error"
CallRender ==
    /\ render_result = NotRendered
    /\ prepare_content = Absent
    /\ render_script # <<>>
    /\ LET expanded == template_render(render_template, render_variables)
       IN  IF expanded.kind = "error"
           THEN /\ render_raw_content' = <<>>
                /\ render_result' = expanded
           ELSE /\ render_raw_content' = expanded.content
                /\ render_result' = render(render_script, expanded.content)
    /\ UNCHANGED <<render_script, render_template, render_variables, prepare_content, prepare_result, prepare_again,
                   deploy_vars, executor_vars, discovery_vars, version_vars>>

\* JinjaTemplateProcessor.prepare_for_execution lines 102-125 called on the
\* content: the canonical form render returned (deploy.py line 138), or any
\* text when it is called on its own
CallPrepareForExecution ==
    /\ prepare_content = Absent
    /\ render_script # <<>>
    /\ render_result.kind \in {"none", "ok"}
    /\ LET content == IF render_result.kind = "ok" THEN render_result.content ELSE render_template
       IN  /\ prepare_content' = Some(content)
           /\ prepare_result' = Some(prepare_for_execution(content, render_script))
    /\ UNCHANGED <<render_script, render_template, render_variables, render_raw_content, render_result,
                   prepare_again, deploy_vars, executor_vars, discovery_vars, version_vars>>

\* prepare_for_execution lines 102-125 called a second time, on the text the
\* first call returned
CallPrepareAgain ==
    /\ prepare_result # Absent
    /\ prepare_again = Absent
    /\ prepare_again' = Some(prepare_for_execution(prepare_result[1], render_script))
    /\ UNCHANGED <<render_script, render_template, render_variables, render_raw_content, render_result,
                   prepare_content, prepare_result, deploy_vars, executor_vars, discovery_vars, version_vars>>

NextRender == CallRender \/ CallPrepareForExecution \/ CallPrepareAgain

SpecRender == InitRender /\ [][NextRender]_vars

\* get_all_scripts_recursively called on its own on root directories of up
\* to MaxWalk files, in every order the directory walk can yield them
MaxWalk == 3

V1__a == <<"V", "1", "_", "_", "a", ".", "s", "q", "l">>
v1__A_jinja == <<"v", "1", "_", "_", "A", ".", "S", "Q", "L", ".", "j", "i", "n", "j", "a">>
d_V1__a == <<"d", "/", "V", "1", "_", "_", "a", ".", "s", "q", "l">>
V1__b_cli == <<"V", "1", "_", "_", "b", ".", "c", "l", "i", ".", "y", "m", "l">>
V2__a_b == <<"V", "2", "_", "_", "a", ".", "b", ".", "s", "q", "l">>
r__Z_jinja == <<"d", "/", "r", "_", "_", "Z", ".", "s", "q", "l", ".", "J", "I", "N", "J", "A">>
V1_a == <<"V", "1", "_", "a", ".", "s", "q", "l">>
A_x_cli == <<"d", "/", "A", "_", "x", ".", "c", "l", "i", ".", "y", "m", "l">>
x_sql == <<"x", ".", "s", "q", "l">>
Ab_cli == <<"A", "b", ".", "c", "l", "i", ".", "y", "m", "l">>

\* versions with equal keys, a version that is a prefix of another, and a
\* file name that starts with a space
V1_0__a == <<"V", "1", ".", "0", "_", "_", "a", ".", "s", "q", "l">>
V1_00__a == <<"V", "1", ".", "0", "0", "_", "_", "a", ".", "s", "q", "l">>
V1_1__b == <<"V", "1", ".", "1", "_", "_", "b", ".", "s", "q", "l">>
V1_a__x == <<"V", "1", ".", "a", "_", "_", "x", ".", "s", "q", "l">>
V1_A__y == <<"V", "1", ".", "A", "_", "_", "y", ".", "s", "q", "l">>
Sp_V3__c == <<" ", "V", "3", "_", "_", "c", ".", "s", "q", "l">>

DiscoveryUniverse ==
    {V1__a, v1__A_jinja, d_V1__a, V1__b_cli, V2__a_b, R__z, r__Z_jinja, R_q, V1_a, A_x_cli, x_sql, Ab_cli,
     ReadmeFile, V1_0__a, V1_00__a, V1_1__b, V1_a__x, V1_A__y, Sp_V3__c}

RootDirectories == {repo \in SUBSET DiscoveryUniverse : Cardinality(repo) <= MaxWalk}

InitDiscovery ==
    /\ config = CHOOSE c \in CliConfigs : ~c.dry_run
    /\ files = [f \in {R__z} |-> InitialContent(f)]
    /\ history = <<>>
    /\ DeployIdle
    /\ ExecutorIdle
    /\ snow_on_path = TRUE
    /\ os_environ = ProcessEnviron
    /\ RenderIdle
    /\ root_directory \in UNION {Orderings(repo) : repo \in RootDirectories}
    /\ discovery_result = NotDiscovered
    /\ VersionIdle

\* get_all_scripts_recursively lines 191-238; the ValueError it raises is a
\* result of kind "error"
CallDiscovery ==
    /\ discovery_result = NotDiscovered
    /\ discovery_result' = get_all_scripts_recursively(root_directory)
    /\ UNCHANGED <<root_directory, deploy_vars, executor_vars, render_vars, version_vars>>

\* deploy.py lines 43-53 on the scripts discovery returned: the dict of the
\* scripts by lowercased name and the execution plan
SortScripts ==
    /\ pc = "idle"
    /\ discovery_result.kind = "ok"
    /\ LET all_files == discovery_result.all_files
       IN  /\ all_scripts' = [k \in {Lower(all_files[i].name) : i \in 1..Len(all_files)} |-> Lookup(all_files, k)]
           /\ all_script_names_sorted' = ExecutionPlan(all_files)
    /\ pc' = "sorted"
    /\ UNCHANGED <<config, files, history, versioned_scripts, r_scripts_checksum, max_published_version,
                   scripts_skipped, scripts_applied, scripts_failed, failed_scripts, error, outcomes, calls,
                   edited, edited_before, prev, runs, edits, session_errors,
                   executor_vars, render_vars, discovery_vars, version_vars>>

NextDiscovery == CallDiscovery \/ SortScripts

SpecDiscovery == InitDiscovery /\ [][NextDiscovery]_vars

\* get_alphanum_key and max_alphanumeric called on their own on lists of up
\* to MaxVersions versions, None and "" among them
MaxVersions == 3

Ver_1_0_2 == <<"1", ".", "0", ".", "2">>
Ver_1_0_10 == <<"1", ".", "0", ".", "1", "0">>
Ver_1_00_2 == <<"1", ".", "0", "0", ".", "2">>
Ver_2 == <<"2">>
Ver_1_a == <<"1", ".", "a">>
Ver_1_A3 == <<"1", ".", "A", "3">>
Ver_b == <<"b">>

VersionUniverse == {None, <<>>, Ver_1_0_2, Ver_1_0_10, Ver_1_00_2, Ver_2, Ver_1_a, Ver_1_A3, Ver_b}

VersionLists == {list : list \in UNION {[1..n -> VersionUniverse] : n \in 0..MaxVersions}}

InitVersion ==
    /\ config = CHOOSE c \in CliConfigs : ~c.dry_run
    /\ files = [f \in {R__z} |-> InitialContent(f)]
    /\ history = <<>>
    /\ DeployIdle
    /\ ExecutorIdle
    /\ snow_on_path = TRUE
    /\ os_environ = ProcessEnviron
    /\ RenderIdle
    /\ DiscoveryIdle
    /\ versions \in VersionLists
    /\ alphanum_keys = Absent
    /\ max_version = Absent

\* version.py lines 20-36: get_alphanum_key of every version of the list
CallGetAlphanumKey ==
    /\ alphanum_keys = Absent
    /\ alphanum_keys' = Some([i \in 1..Len(versions) |-> get_alphanum_key(versions[i])])
    /\ UNCHANGED <<versions, max_version, deploy_vars, executor_vars, render_vars, discovery_vars>>

\* version.py lines 44-58: max_alphanumeric of the list
CallMaxAlphanumeric ==
    /\ max_version = Absent
    /\ max_version' = Some(max_alphanumeric(versions))
    /\ UNCHANGED <<versions, alphanum_keys, deploy_vars, executor_vars, render_vars, discovery_vars>>

NextVersion == CallGetAlphanumKey \/ CallMaxAlphanumeric

SpecVersion == InitVersion /\ [][NextVersion]_vars

\* ------------------------------------------------------------------------
\* Properties
\* ------------------------------------------------------------------------
\* the rank of a script type in the execution plan
TypeRank(type) == IF type = "V" THEN 1 ELSE IF type = "R" THEN 2 ELSE 3

\* the position of a name in the execution plan, 0 if it is not there
PlanIndex(name) ==
    IF \E i \in 1..Len(all_script_names_sorted) : all_script_names_sorted[i] = name
    THEN CHOOSE i \in 1..Len(all_script_names_sorted) : all_script_names_sorted[i] = name
    ELSE 0

\* C1: in the execution plan every V script precedes every R script and
\* every R script precedes every A script, and within one kind the scripts
\* are in ascending order of the alphanumeric key of the lowercased name,
\* digit runs comparing as integers: V1.0.2__c comes before V1.0.10__b.
C1_PlanOrder ==
    /\ \A i, j \in 1..Len(all_script_names_sorted) :
         i < j =>
            LET a == all_scripts[all_script_names_sorted[i]]
                b == all_scripts[all_script_names_sorted[j]]
            IN  /\ TypeRank(a.type) <= TypeRank(b.type)
                /\ a.type = b.type =>
                      KeyCmp(get_alphanum_key(Lower(a.name)), get_alphanum_key(Lower(b.name))) <= 0
    /\ PlanIndex(Lower(V1_0_2__c)) > 0 /\ PlanIndex(Lower(V1_0_10__b)) > 0
         => PlanIndex(Lower(V1_0_2__c)) < PlanIndex(Lower(V1_0_10__b))

\* a run whose plan holds the two versioned scripts, which plain text order
\* would put the other way round
C1_Witness ==
    /\ pc = "running"
    /\ all_script_names_sorted = <<Lower(V1_0_2__c), Lower(V1_0_10__b)>>

\* the type of the script of an outcome of the current run
OutcomeType(outcome) == all_scripts[Lower(outcome.script)].type

\* the loop dispatched the script of the outcome
WasDispatched(outcome) == outcome.result \in {"applied", "failed"}

\* C2: if a deploy run completes without any failure and neither the script
\* files nor the change history are changed by anyone else, a second run
\* with the same configuration dispatches no V script and no R script, and
\* dispatches every A script again. (Stated for runs that are not dry
\* runs: a dry run records nothing.)
C2_SecondRunIdempotent ==
    /\ ~config.dry_run
    /\ prev.pc = "done"
    /\ edited_before = {}
    => /\ \A i \in 1..Len(outcomes) :
            IF OutcomeType(outcomes[i]) = "A" THEN WasDispatched(outcomes[i])
            ELSE ~WasDispatched(outcomes[i])
       /\ pc = "done" => Len(outcomes) = Len(all_script_names_sorted)

\* C9: if the content of one R script changes between two runs and nothing
\* else changes, the run after the change dispatches that R script exactly
\* once, and the run after that one does not dispatch it again. (Stated
\* for runs that are not dry runs and that complete.)
C9_ChangedRepeatableAppliedOnce ==
    ~config.dry_run =>
        \A f \in DOMAIN files :
            /\ (/\ edited_before = {f}
                /\ pc = "done"
                /\ all_scripts[Lower(f)].type = "R"
                => Cardinality({i \in 1..Len(outcomes) :
                                 outcomes[i].script = f /\ WasDispatched(outcomes[i])}) = 1)
            /\ (/\ prev.edited_before = {f}
                /\ prev.pc = "done"
                /\ edited_before = {}
                /\ pc \in {"running", "done", "raised"}
                /\ all_scripts[Lower(f)].type = "R"
                => \A i \in 1..Len(outcomes) : outcomes[i].script = f => ~WasDispatched(outcomes[i]))

\* the loop is about to process a script
AtScript == pc = "running" /\ Len(outcomes) < Len(all_script_names_sorted)

\* that script, what render returns for it, and its checksum (deploy.py
\* lines 61-76)
CurrentScript == all_scripts[all_script_names_sorted[Len(outcomes) + 1]]
CurrentRendered == RenderedTexts[CurrentScript.file_path][files[CurrentScript.file_path]]
CurrentChecksum == sha224(CurrentRendered.content)

\* the loop has reached the decision for a script of the given type
Deciding(type) == AtScript /\ CurrentScript.type = type /\ CurrentRendered.kind = "ok"

\* the calls that dispatch a script
DispatchCalls == {"apply_change_script", "execute_cli_script"}
IsDispatchOf(call, name) == call.fn \in DispatchCalls /\ call.script = name

\* the step skips the script: it is counted in skipped, nothing is called,
\* and the loop goes on
SkipsCurrent ==
    /\ outcomes' = Append(outcomes, [script |-> CurrentScript.name, result |-> "skipped"])
    /\ scripts_skipped' = scripts_skipped + 1
    /\ scripts_applied' = scripts_applied
    /\ scripts_failed' = scripts_failed
    /\ calls' = calls
    /\ history' = history
    /\ pc' = "running"
    /\ error' = NoError

\* the step dispatches the script: the first call it makes is the dispatch
DispatchesCurrent ==
    /\ Len(calls') > Len(calls)
    /\ IsDispatchOf(calls'[Len(calls) + 1], CurrentScript.name)
    /\ \A i \in 1..Len(calls) : calls'[i] = calls[i]

\* the exception is the one of the version-ordering branch
IsNeverApplied(e) == e.type = "ValueError" /\ e.message = "Versioned script will never be applied"

\* the last thing the loop did, once it has done something
LastOutcome == outcomes[Len(outcomes)]
LastScript == all_scripts[Lower(LastOutcome.script)]

\* C3: a V script whose name has a record in versioned_scripts is always
\* skipped: counted in skipped, nothing dispatched, no failure, for either
\* value of out_of_order and whether or not its checksum equals the
\* recorded one.
C3_AppliedVersionedSkipped ==
    [][Deciding("V") /\ CurrentScript.name \in DOMAIN versioned_scripts => SkipsCurrent]_vars

\* an applied V script whose checksum has drifted was skipped with
\* out_of_order set
C3_Witness ==
    /\ pc = "running"
    /\ Len(outcomes) > 0
    /\ LastOutcome.result = "skipped"
    /\ LastScript.type = "V"
    /\ LastScript.name \in DOMAIN versioned_scripts
    /\ RenderedTexts[LastScript.file_path][files[LastScript.file_path]].kind = "ok"
    /\ versioned_scripts[LastScript.name].checksum
         # sha224(RenderedTexts[LastScript.file_path][files[LastScript.file_path]].content)
    /\ config.out_of_order
    /\ LastScript.file_path \in edited_before

\* the version of the script is not above max_published_version
NotAboveMax(script) == KeyCmp(get_alphanum_key(script.version), max_published_version) <= 0

\* C4: with out_of_order = false and
\* raise_exception_on_ignored_versioned_script = false, a V script without
\* an applied record whose version key is <= the key of
\* max_published_version is skipped, and the run goes on.
C4_OlderVersionedSkipped ==
    [][/\ Deciding("V")
       /\ ~config.out_of_order
       /\ ~config.raise_exception_on_ignored_versioned_script
       /\ CurrentScript.name \notin DOMAIN versioned_scripts
       /\ NotAboveMax(CurrentScript)
       => SkipsCurrent]_vars

\* an unapplied older V script was skipped and the run went on to the next
C4_Witness ==
    /\ pc = "running"
    /\ Len(outcomes) = 2
    /\ ~config.out_of_order
    /\ ~config.raise_exception_on_ignored_versioned_script
    /\ outcomes[1].result = "skipped"
    /\ all_scripts[Lower(outcomes[1].script)].type = "V"
    /\ outcomes[1].script \notin DOMAIN versioned_scripts
    /\ NotAboveMax(all_scripts[Lower(outcomes[1].script)])
    /\ calls # <<>>

\* once deploy has raised, the run does nothing more
RunEnded == pc = "raised" /\ runs' = runs => outcomes' = outcomes /\ calls' = calls /\ history' = history

\* C5: with out_of_order = false and
\* raise_exception_on_ignored_versioned_script = true, a V script without
\* an applied record whose version key is <= max_published_version makes
\* deploy raise the ValueError 'Versioned script will never be applied'
\* naming the script; the script is not dispatched, no later script is
\* processed, whatever continue_versioned_on_error is.
C5_OlderVersionedRaises ==
    [][/\ (/\ Deciding("V")
           /\ ~config.out_of_order
           /\ config.raise_exception_on_ignored_versioned_script
           /\ CurrentScript.name \notin DOMAIN versioned_scripts
           /\ NotAboveMax(CurrentScript)
           => /\ pc' = "raised"
              /\ IsNeverApplied(error')
              /\ error'.script = CurrentScript.name
              /\ calls' = calls
              /\ history' = history
              /\ scripts_applied' = scripts_applied
              /\ Len(outcomes') = Len(outcomes) + 1)
       /\ RunEnded]_vars

\* deploy raised on an older V script with continue_versioned_on_error set
\* and scripts left in the plan
C5_Witness ==
    /\ pc = "raised"
    /\ IsNeverApplied(error)
    /\ config.continue_versioned_on_error
    /\ LastOutcome.script = error.script
    /\ Len(outcomes) < Len(all_script_names_sorted)
    /\ calls = <<>>

\* C6: with out_of_order = true every V script without an applied record is
\* dispatched, also when its version key is <= max_published_version, and
\* deploy never raises 'will never be applied', also when
\* raise_exception_on_ignored_versioned_script = true; several older
\* scripts in one run are all dispatched.
C6_OutOfOrderDispatches ==
    [][/\ (Deciding("V") /\ config.out_of_order /\ CurrentScript.name \notin DOMAIN versioned_scripts
           => DispatchesCurrent)
       /\ (config.out_of_order => ~IsNeverApplied(error'))]_vars

\* two older V scripts were dispatched in one run, with the raise flag set
C6_Witness ==
    /\ config.out_of_order
    /\ config.raise_exception_on_ignored_versioned_script
    /\ Len(outcomes) = 2
    /\ \A i \in 1..2 :
         /\ all_scripts[Lower(outcomes[i].script)].type = "V"
         /\ NotAboveMax(all_scripts[Lower(outcomes[i].script)])
         /\ outcomes[i].result \in {"applied", "failed"}
         /\ \E k \in 1..Len(calls) : IsDispatchOf(calls[k], outcomes[i].script) /\ calls[k].out_of_order

\* C7: a V script without an applied record is dispatched for either value
\* of out_of_order whenever max_published_version is null or the version
\* key of the script is strictly greater than the key of
\* max_published_version; with a null max_published_version neither the
\* skip nor the raise of the ordering branch fires and is_out_of_order is
\* false.
C7_NewerVersionedDispatched ==
    [][/\ Deciding("V")
       /\ CurrentScript.name \notin DOMAIN versioned_scripts
       /\ (max_published_version = <<>> \/ ~NotAboveMax(CurrentScript))
       => /\ DispatchesCurrent
          /\ ~IsNeverApplied(error')
          /\ (max_published_version = <<>> => ~calls'[Len(calls) + 1].out_of_order)]_vars

\* the first run found no V record and dispatched V1.0.2__c; the second
\* run, with that version as max_published_version and out_of_order unset,
\* dispatched V1.0.10__b, whose key is greater
C7_Witness ==
    /\ runs = 2
    /\ pc = "running"
    /\ ~config.out_of_order
    /\ config.raise_exception_on_ignored_versioned_script
    /\ prev.outcomes # <<>>
    /\ prev.outcomes[1] = [script |-> V1_0_2__c, result |-> "applied"]
    /\ DOMAIN versioned_scripts = {V1_0_2__c}
    /\ max_published_version # <<>>
    /\ Len(outcomes) = 2
    /\ outcomes[2] = [script |-> V1_0_10__b, result |-> "applied"]
    /\ ~NotAboveMax(all_scripts[Lower(V1_0_10__b)])

\* the script has an entry in r_scripts_checksum
HasChecksums(script) == ~r_scripts_checksum.is_none /\ script.name \in DOMAIN r_scripts_checksum.items

\* C8: an R script is skipped if and only if the checksum of its current
\* canonical form equals the checksum at index 0 of its entry in
\* r_scripts_checksum; an R script without an entry (or with
\* r_scripts_checksum null) is compared with the empty string and is
\* therefore always dispatched.
C8_RepeatableSkippedIffUnchanged ==
    [][Deciding("R") =>
         /\ HasChecksums(CurrentScript) /\ r_scripts_checksum.items[CurrentScript.name][1] = CurrentChecksum
              => SkipsCurrent
         /\ HasChecksums(CurrentScript) /\ r_scripts_checksum.items[CurrentScript.name][1] # CurrentChecksum
              => DispatchesCurrent
         /\ ~HasChecksums(CurrentScript) => DispatchesCurrent /\ CurrentChecksum # <<>>]_vars

\* an R script with two recorded checksums was skipped: its checksum equals
\* the newer one and differs from the older one
C8_Witness ==
    /\ pc = "running"
    /\ Len(outcomes) > 0
    /\ LastScript.type = "R"
    /\ LastOutcome.result = "skipped"
    /\ HasChecksums(LastScript)
    /\ Len(r_scripts_checksum.items[LastScript.name]) = 2
    /\ r_scripts_checksum.items[LastScript.name][1]
         = sha224(RenderedTexts[LastScript.file_path][files[LastScript.file_path]].content)
    /\ r_scripts_checksum.items[LastScript.name][2] # r_scripts_checksum.items[LastScript.name][1]

\* the continue flag of the kind of the script
ContinueFlag(script) ==
    IF script.type = "V" THEN config.continue_versioned_on_error
    ELSE IF script.type = "R" THEN config.continue_repeatable_on_error
    ELSE config.continue_always_on_error

\* C10: continue-on-error is per kind: when the dispatch of a script of
\* kind K raises and the flag for K is false, deploy re-raises at once and
\* no later script is dispatched, whatever the flags of the other kinds
\* are; a failing V script stops the run even when
\* continue_repeatable_on_error and continue_always_on_error are true.
C10_ContinuePerKind ==
    [][/\ (/\ AtScript
           /\ Len(outcomes') = Len(outcomes) + 1
           /\ outcomes'[Len(outcomes')].result = "failed"
           /\ ~ContinueFlag(CurrentScript)
           => /\ pc' = "raised"
              /\ error'.type \in {"Exception", "TypeError"}
              /\ error'.script = CurrentScript.name
              /\ scripts_failed' = scripts_failed + 1)
       /\ RunEnded]_vars

\* the dispatch of a V script failed and deploy raised, with the flags of
\* the other kinds set and scripts of another kind left in the plan
C10_Witness ==
    /\ pc = "raised"
    /\ Len(outcomes) > 0
    /\ LastOutcome.result = "failed"
    /\ LastScript.type = "V"
    /\ ~config.continue_versioned_on_error
    /\ config.continue_repeatable_on_error
    /\ config.continue_always_on_error
    /\ Len(outcomes) < Len(all_script_names_sorted)
    /\ all_scripts[all_script_names_sorted[Len(outcomes) + 1]].type # "V"

\* the names of the scripts whose dispatch failed, in the order of the run
RECURSIVE FailedNames(_)
FailedNames(done) ==
    IF done = <<>> THEN <<>>
    ELSE (IF Head(done).result = "failed" THEN <<Head(done).script>> ELSE <<>>) \o FailedNames(Tail(done))

\* the exception is the summary raised after the loop
IsSummary(e) == e.type = "Exception" /\ e.message = "change script(s) failed"

\* C11: when the dispatch of a script of kind K raises and the continue flag
\* of K is true, deploy goes on with the later scripts of the plan in
\* order, and after the loop it raises a summary exception that names every
\* failed script; deploy never returns normally from a run in which a
\* dispatch failed.
C11_ContinueThenSummary ==
    [][/\ (/\ AtScript
           /\ Len(outcomes') = Len(outcomes) + 1
           /\ outcomes'[Len(outcomes')].result = "failed"
           /\ ContinueFlag(CurrentScript)
           => /\ pc' = "running"
              /\ error' = NoError
              /\ scripts_failed' = scripts_failed + 1
              /\ failed_scripts' = Append(failed_scripts, CurrentScript.name))
       /\ (AtScript /\ outcomes' # outcomes
           => outcomes' = Append(outcomes, [script |-> CurrentScript.name,
                                            result |-> outcomes'[Len(outcomes')].result]))
       /\ (/\ pc = "running"
           /\ Len(outcomes) = Len(all_script_names_sorted)
           /\ FailedNames(outcomes) # <<>>
           /\ pc' # pc
           => /\ pc' = "raised"
              /\ IsSummary(error')
              /\ error'.script = FailedNames(outcomes))
       /\ (pc' = "done" => FailedNames(outcomes') = <<>>)]_vars

\* the dispatch of the first script failed, the run went on and applied the
\* second, and deploy raised the summary naming the first
C11_Witness ==
    /\ pc = "raised"
    /\ IsSummary(error)
    /\ Len(outcomes) = 2
    /\ outcomes[1].result = "failed"
    /\ outcomes[2].result = "applied"
    /\ error.script = <<outcomes[1].script>>

\* the text of the file renders to nothing (a semicolon alone) or to
\* comments alone
RendersToNothing(script) == script.format = "SQL" /\ files[script.file_path] \in {Text_semi, Text_comment}

C12_DiscoveryErrorReached ==
    /\ pc = "raised"
    /\ R_q \in DOMAIN files
    /\ error.type = "ValueError"
    /\ error.message = "two underscores are required"
    /\ outcomes = <<>>

\* C13: for every script the engine dispatches, the checksum that goes into
\* its change-history row is the SHA-224 of the canonical form returned by
\* render; the fix-up of prepare_for_execution never influences it.
C13_HistoryChecksumCanonical ==
    [][AtScript /\ CurrentRendered.kind = "ok"
       => \A i \in (Len(history) + 1)..Len(history') :
             /\ history'[i].script = CurrentScript.name
             /\ history'[i].checksum = CurrentChecksum]_vars

\* the last subprocess.run of the call, and the step it ran
LastRun == subprocess_runs[Len(subprocess_runs)]
FailedStep == exec_steps[exec_i + 1]

\* execute_cli_step raised because the process of the step exited with a
\* code other than 0
RaisedOnExitCode ==
    /\ exec_pc = "raised"
    /\ exec_error.type = "CLIScriptExecutionError"
    /\ subprocess_runs # <<>>
    /\ LastRun.outcome.kind = "exit"
    /\ LastRun.outcome.returncode # 0

\* C14: when the subprocess of a step exits with a non-zero code c,
\* execute_cli_step raises a CLIScriptExecutionError whose exit_code is c,
\* whose cli_tool is the cli name of the step, whose step_index is the
\* 0-based index of the step, whose stdout and stderr are the captured
\* outputs and whose error_message is the trimmed stderr, or a synthesised
\* message when stderr is empty.
C14_ExitCodeError ==
    RaisedOnExitCode =>
        /\ exec_error.exit_code = Some(LastRun.outcome.returncode)
        /\ exec_error.cli_tool = Some(FailedStep.cli)
        /\ exec_error.step_index = Some(exec_i)
        /\ exec_error.stdout = Some(LastRun.outcome.stdout)
        /\ exec_error.stderr = Some(LastRun.outcome.stderr)
        /\ exec_error.error_message =
              IF LastRun.outcome.stderr # <<>> THEN Strip(LastRun.outcome.stderr)
              ELSE <<"Command exited with code ", Str(LastRun.outcome.returncode)>>

\* the calls deploy makes in one step of the loop
NewCalls == SubSeq(calls', Len(calls) + 1, Len(calls'))

\* deploy hands the current script to execute_cli_script, and the steps of
\* the script end as steps_outcome when they are run
DispatchesCli(steps_outcome) ==
    /\ AtScript
    /\ CurrentScript.format = "CLI"
    /\ NewCalls # <<>>
    /\ NewCalls[1].fn = "execute_cli_script"
    /\ NewCalls[1].script = CurrentScript.name
    /\ NewCalls[1].steps = steps_outcome

\* the record_change_history calls deploy makes for the current script in
\* one step of the loop
NewRecords ==
    {i \in 1..Len(NewCalls) : /\ NewCalls[i].fn = "record_change_history"
                              /\ NewCalls[i].script = CurrentScript.name}

\* C15: when deploy dispatches a CLI script whose steps all succeed and
\* dry_run is false, the script is counted as applied and
\* session.record_change_history is called exactly once for it, with status
\* 'Success' and the canonical checksum.
C15_CliSuccessRecorded ==
    [][DispatchesCli("ok") /\ ~config.dry_run
       => /\ scripts_applied' = scripts_applied + 1
          /\ scripts_failed' = scripts_failed
          /\ Cardinality(NewRecords) = 1
          /\ \A i \in NewRecords : /\ NewCalls[i].status = "Success"
                                   /\ NewCalls[i].checksum = CurrentChecksum]_vars

\* C16: when a step of a CLI script dispatched by deploy fails with a
\* CLIScriptExecutionError and dry_run is false, session.record_change_history
\* is called with status 'Failed' and the error message, and the error is
\* counted as a failure of the script.
C16_CliFailureRecorded ==
    [][DispatchesCli("CLIScriptExecutionError") /\ ~config.dry_run
       => /\ scripts_failed' = scripts_failed + 1
          /\ failed_scripts' = Append(failed_scripts, CurrentScript.name)
          /\ \E i \in NewRecords : /\ NewCalls[i].status = "Failed"
                                   /\ NewCalls[i].error_message = Some("CLIScriptExecutionError")
          /\ should_continue(CurrentScript) \/ error'.type = "CLIScriptExecutionError"]_vars

\* the process of a subprocess.run exited with code 0
RunSucceeded(run) == run.outcome.kind = "exit" /\ run.outcome.returncode = 0

\* a step of the script raised out of execute_cli_script
RaisedInStep == exec_pc = "raised" /\ exec_error.type = "CLIScriptExecutionError"

\* the subprocess.run calls made so far are those of the first steps of the
\* script, one each, in the order of the list
RunsFollowSteps ==
    /\ Len(subprocess_runs) <= Len(exec_steps)
    /\ \A k \in 1..Len(subprocess_runs) : subprocess_runs[k].argv = cmd_parts(exec_steps[k])

\* C17: execute_cli_script runs the steps in their listed order and the
\* first step that fails aborts the script: every subprocess before the last
\* one succeeded, the failing step is the last one started, the error
\* carries its 0-based index, and nothing more is started afterwards.
C17_FirstFailureAborts ==
    /\ [](/\ RunsFollowSteps
          /\ \A k \in 1..(Len(subprocess_runs) - 1) : RunSucceeded(subprocess_runs[k])
          /\ RaisedInStep => /\ Len(subprocess_runs) = exec_i + 1
                             /\ ~RunSucceeded(LastRun)
                             /\ exec_error.step_index = Some(exec_i))
    /\ [][RaisedInStep => /\ subprocess_runs' = subprocess_runs
                          /\ exec_pc' = exec_pc
                          /\ exec_error' = exec_error]_vars

\* the first of two steps fails and the second one is never started
C17_Witness ==
    /\ RaisedInStep
    /\ Len(exec_steps) = 2
    /\ exec_i = 0
    /\ Len(subprocess_runs) = 1
    /\ exec_steps[2] # exec_steps[1]

\* the call of execute_cli_script under way, or ended, is a dry run
ExecutorDryRun == exec_args # Absent /\ exec_args[1].dry_run

\* the no-execution sentinel: execute_cli_step returned None
NoExecution == [kind |-> "return", value |-> Absent]

\* the name is that of a CLI-format script of the root folder
IsCliScriptName(name) ==
    \E f \in DOMAIN files : script_of_file(f).name = name /\ script_of_file(f).format = "CLI"

\* C18: in a dry run no subprocess is started for any step of a CLI script,
\* execute_cli_step returns the no-execution sentinel for every step, no
\* step raises, execute_cli_script returns a non-negative duration, and
\* deploy makes no record_change_history call for a CLI script.
C18_DryRunStartsNothing ==
    /\ ExecutorDryRun =>
          /\ subprocess_runs = <<>>
          /\ \A k \in 1..Len(step_results) : step_results[k] = NoExecution
          /\ ~RaisedInStep
          /\ exec_pc = "returned" => /\ execution_time # Absent
                                     /\ execution_time[1] >= 0
                                     /\ Len(step_results) = Len(exec_steps)
    /\ config.dry_run =>
          \A i \in 1..Len(calls) :
              calls[i].fn = "record_change_history" => ~IsCliScriptName(calls[i].script)

\* a dry run of a script of two steps has returned
C18_Witness ==
    /\ ExecutorDryRun
    /\ exec_pc = "returned"
    /\ Len(exec_steps) = 2
    /\ Len(step_results) = 2
    /\ execution_time = Some(1)

\* deploy has dispatched a CLI script in a dry run
C18_DeployDryRunReached ==
    /\ config.dry_run
    /\ \E i \in 1..Len(calls) : calls[i].fn = "execute_cli_script" /\ calls[i].dry_run

\* the name of the tool of a cli value: its basename when the value holds
\* a path separator
CliBasename(cli) == IF Contains(cli, <<PathSep>>) THEN PathName(cli) ELSE cli

\* the cli value of a step is that of the one allowed tool, snow, and it
\* resolves: an existing path, or a name found on PATH
CliAllowedAndResolves(data) ==
    /\ "cli" \in DOMAIN data
    /\ CliBasename(data.cli) \in {<<"s", "n", "o", "w">>}
    /\ IF Contains(data.cli, <<PathSep>>) THEN data.cli \in ExistingPaths ELSE snow_on_path

\* the steps listed in the content execute_cli_script was called with
ListedSteps == IF exec_args = Absent THEN <<>> ELSE exec_args[1].content.steps

\* C19: parse_cli_script accepts a step only if its cli value (its basename
\* when it holds a path separator) is in the allow-list {snow} and
\* resolves; all steps are validated before the first one runs, so a script
\* with any disallowed or unresolvable step raises ValueError and starts no
\* subprocess.
C19_OnlyAllowedToolsRun ==
    /\ exec_steps # <<>> =>
          /\ Len(exec_steps) = Len(ListedSteps)
          /\ \A k \in 1..Len(ListedSteps) : CliAllowedAndResolves(ListedSteps[k])
    /\ (\E k \in 1..Len(ListedSteps) : ~CliAllowedAndResolves(ListedSteps[k])) =>
          /\ exec_pc = "raised"
          /\ exec_error.type = "ValueError"
          /\ subprocess_runs = <<>>
    /\ \A k \in 1..Len(subprocess_runs) :
          CliBasename(subprocess_runs[k].argv[1]) \in {<<"s", "n", "o", "w">>}

\* a script whose first step is valid and whose second step names a tool
\* that is not allowed has been rejected
C19_Witness ==
    /\ snow_on_path
    /\ Len(ListedSteps) = 2
    /\ CliAllowedAndResolves(ListedSteps[1])
    /\ "cli" \in DOMAIN ListedSteps[2]
    /\ CliBasename(ListedSteps[2].cli) = Bash
    /\ exec_pc = "raised"
    /\ subprocess_runs = <<>>

\* a script of two valid steps, one by name and one by path, has run
C19_AcceptedReached ==
    /\ Len(exec_steps) = 2
    /\ exec_steps[1].cli = Snow
    /\ exec_steps[2].cli = UsrBinSnow
    /\ Len(subprocess_runs) = 2

\* the number of semicolons of a text
CountSemicolons(s) == Len(SelectSeq(s, LAMBDA c : c = ";"))

\* the expanded template without the U+FEFF it starts with, if any
AfterBom == IF render_raw_content # <<>> /\ render_raw_content[1] = BOM
            THEN SubSeq(render_raw_content, 2, Len(render_raw_content))
            ELSE render_raw_content

\* the whitespace-stripped content render works on
StrippedInput == Strip(AfterBom)

\* render returned the canonical form of a SQL script
RenderedSql == render_result.kind = "ok" /\ ~_is_cli_script(render_script)

\* C20: for a SQL script render removes at most one semicolon, and only the
\* last character of the whitespace-stripped content: the canonical form is
\* the stripped input, or the stripped input without its final ';', so the
\* number of ';' drops by zero or one and the other semicolons stay where
\* they are.
C20_OnlyFinalSemicolonRemoved ==
    RenderedSql =>
        LET content == render_result.content
            removed == CountSemicolons(StrippedInput) - CountSemicolons(content)
        IN  /\ removed \in {0, 1}
            /\ Len(content) = Len(StrippedInput) - removed
            /\ \A i \in 1..Len(content) : content[i] = StrippedInput[i]
            /\ removed = 1 <=> /\ StrippedInput # <<>>
                               /\ StrippedInput[Len(StrippedInput)] = ";"

\* a text with two semicolons at its end, of which render removes one
C20_Witness ==
    /\ RenderedSql
    /\ Len(StrippedInput) >= 3
    /\ StrippedInput[Len(StrippedInput)] = ";"
    /\ StrippedInput[Len(StrippedInput) - 1] = ";"
    /\ CountSemicolons(render_result.content) = CountSemicolons(StrippedInput) - 1
    /\ render_raw_content # StrippedInput

\* a text with a semicolon inside and none at its end, which render keeps
C20_NothingRemovedReached ==
    /\ RenderedSql
    /\ CountSemicolons(StrippedInput) = 1
    /\ render_result.content = StrippedInput

\* render was called for a SQL script and returned or raised
RenderCalledOnSql ==
    /\ render_result.kind \in {"ok", "error"}
    /\ template_render(render_template, render_variables).kind = "ok"
    /\ ~_is_cli_script(render_script)

LeftOver ==
    IF StrippedInput # <<>> /\ StrippedInput[Len(StrippedInput)] = ";"
    THEN SubSeq(StrippedInput, 1, Len(StrippedInput) - 1)
    ELSE StrippedInput

\* the text consists only of '--' line comments (up to the end of the
\* line), '/*...*/' block comments, semicolons and whitespace, read from
\* left to right as SQL is
RECURSIVE OnlyCommentsAndSemicolons(_)
OnlyCommentsAndSemicolons(s) ==
    LET others == {i \in 1..Len(s) : ~IsSpace(s[i]) /\ s[i] # ";"}
        first == CHOOSE i \in others : \A j \in others : i <= j
        line_end == Find(s, <<"\n">>, first)
        block_end == Find(s, <<"*", "/">>, first + 2)
    IN  IF others = {} THEN TRUE
        ELSE IF Slice(s, first, first + 1) = <<"-", "-">>
        THEN line_end = 0 \/ OnlyCommentsAndSemicolons(SubSeq(s, line_end + 1, Len(s)))
        ELSE IF Slice(s, first, first + 1) = <<"/", "*">>
        THEN block_end # 0 /\ OnlyCommentsAndSemicolons(SubSeq(s, block_end + 2, Len(s)))
        ELSE FALSE

\* C22: render of a SQL script fails with 'rendered to empty content' when
\* nothing or only whitespace is left after the BOM removal, the stripping
\* and the removal of one trailing ';'; it fails with 'contains only
\* comments or semicolons' when what is left consists only of line
\* comments, block comments, semicolons and whitespace; in every other case
\* it returns what is left, the canonical form.
C22_EmptyAndCommentOnlyRejected ==
    RenderCalledOnSql =>
        render_result =
            IF LeftOver = <<>> \/ IsSpaceStr(LeftOver)
            THEN RenderError("rendered to empty content")
            ELSE IF OnlyCommentsAndSemicolons(LeftOver)
            THEN RenderError("contains only comments or semicolons")
            ELSE Rendered(LeftOver)

\* render returned a canonical form, of a SQL or of a CLI script
RenderReturned ==
    render_result.kind = "ok" /\ template_render(render_template, render_variables).kind = "ok"

\* the number of U+FEFF characters of a text
CountBoms(s) == Len(SelectSeq(s, LAMBDA c : c = BOM))

\* C23: render removes a U+FEFF only when it is the first character of the
\* expanded template, and then exactly that one character: every other
\* U+FEFF is in the canonical form, which is the rest of the text (stripped,
\* and for SQL without its final ';').
C23_OnlyLeadingBomRemoved ==
    RenderReturned =>
        /\ CountBoms(render_result.content) =
              CountBoms(render_raw_content)
                  - (IF render_raw_content # <<>> /\ render_raw_content[1] = BOM THEN 1 ELSE 0)
        /\ render_result.content \in {StrippedInput, LeftOver}

\* a text that starts with two U+FEFF and has a third one inside: only the
\* first one is removed
C23_Witness ==
    /\ RenderReturned
    /\ Len(render_raw_content) = 4
    /\ render_raw_content[1] = BOM
    /\ render_raw_content[2] = BOM
    /\ render_raw_content[4] = BOM
    /\ CountBoms(render_result.content) = 2

\* a U+FEFF after leading whitespace is not the first character and is kept
C23_BomAfterSpaceReached ==
    /\ RenderReturned
    /\ render_raw_content[1] = " "
    /\ render_raw_content[2] = BOM
    /\ render_result.content[1] = BOM

\* C24: for any SQL input, the canonical form render returns never contains
\* the substring 'schemachange: trailing comment fix'.
C24_CanonicalNeverHasFix ==
    RenderCalledOnSql /\ render_result.kind = "ok" => ~Contains(render_result.content, FixMarker)

\* C24 amended: for any SQL input whose expanded template does not contain
\* the substring 'schemachange: trailing comment fix', the canonical form
\* does not contain it either, and it appears in the executable form only
\* as the end of the fix that prepare_for_execution appends.
C24_CanonicalAddsNoFix ==
    (/\ RenderCalledOnSql
     /\ render_result.kind = "ok"
     /\ ~Contains(render_raw_content, FixMarker))
    => /\ ~Contains(render_result.content, FixMarker)
       /\ (prepare_result # Absent /\ Contains(prepare_result[1], FixMarker)) =>
             prepare_result[1] = RStrip(render_result.content) \o TrailingCommentFix

\* a canonical form without the marker whose executable form has it
C24_Witness ==
    /\ RenderCalledOnSql
    /\ render_result.kind = "ok"
    /\ ~Contains(render_raw_content, FixMarker)
    /\ ~Contains(render_result.content, FixMarker)
    /\ prepare_content = Some(render_result.content)
    /\ prepare_result # Absent
    /\ Contains(prepare_result[1], FixMarker)

\* the text with every character of a comment replaced by a space, the
\* comments read from left to right: '--' up to the end of the line, '/*'
\* up to the next '*/' or, when there is none, up to the end of the text
RECURSIVE BlankComments(_)
BlankComments(s) ==
    LET line == Find(s, <<"-", "-">>, 1)
        block == Find(s, <<"/", "*">>, 1)
        is_line == line # 0 /\ (block = 0 \/ line < block)
        start == IF is_line THEN line ELSE block
        line_end == Find(s, <<"\n">>, start)
        block_end == Find(s, <<"*", "/">>, start + 2)
        next == IF is_line THEN line_end ELSE IF block_end = 0 THEN 0 ELSE block_end + 2
        stop == IF next = 0 THEN Len(s) + 1 ELSE next
    IN  IF line = 0 /\ block = 0 THEN s
        ELSE SubSeq(s, 1, start - 1) \o [i \in 1..(stop - start) |-> " "]
             \o BlankComments(SubSeq(s, stop, Len(s)))

\* the content prepare_for_execution was called with and what it returned
PrepareCalled == prepare_content # Absent /\ prepare_result # Absent /\ render_script # <<>>
PreparedContent == prepare_content[1]

\* the positions of the semicolons outside any comment
RealSemicolons == {i \in 1..Len(PreparedContent) : BlankComments(PreparedContent)[i] = ";"}
LastRealSemicolon == CHOOSE i \in RealSemicolons : \A j \in RealSemicolons : i >= j

\* the text after the last semicolon outside any comment has a newline, is
\* not only whitespace, and consists only of comments and whitespace
TrailingCommentsOnNewLines ==
    /\ RealSemicolons # {}
    /\ LET after == SubSeq(PreparedContent, LastRealSemicolon + 1, Len(PreparedContent))
           after_blanked == SubSeq(BlankComments(PreparedContent), LastRealSemicolon + 1, Len(PreparedContent))
       IN  /\ Contains(after, <<"\n">>)
           /\ Strip(after) # <<>>
           /\ Strip(after_blanked) = <<>>

\* every '/*' that opens a comment has its '*/'
EveryBlockCommentClosed(s) ==
    LET blanked == BlankComments(s \o <<"\n", "X">>)
    IN  blanked[Len(blanked)] = "X"

\* C25: prepare_for_execution returns a CLI script's content unchanged; for
\* a SQL script (whose block comments are all closed) it appends the
\* trailing comment fix, to the right-stripped content, if and only if the
\* content has a semicolon outside any comment and the text after the last
\* such semicolon contains a newline, is not only whitespace and consists
\* only of comments and whitespace; in every other case it returns the
\* content unchanged.
C25_FixIffTrailingComments ==
    PrepareCalled /\ EveryBlockCommentClosed(PreparedContent) =>
        prepare_result[1] =
            IF _is_cli_script(render_script) THEN PreparedContent
            ELSE IF TrailingCommentsOnNewLines THEN RStrip(PreparedContent) \o TrailingCommentFix
            ELSE PreparedContent

\* the same holds of every content that does not have both kinds of comment
C25_FixIffTrailingCommentsOfOneKind ==
    (PrepareCalled /\ ~(Contains(PreparedContent, <<"/", "*">>) /\ Contains(PreparedContent, <<"-", "-">>)))
        => C25_FixIffTrailingComments

\* a fix appended after a comment on a new line, a CLI content handed back
C25_FixAppendedReached ==
    /\ PrepareCalled
    /\ ~_is_cli_script(render_script)
    /\ TrailingCommentsOnNewLines
    /\ prepare_result[1] = RStrip(PreparedContent) \o TrailingCommentFix

\* get_all_scripts_recursively has been called on its own
DiscoveryCalled == discovery_result.kind \in {"ok", "error"}
Walked == 1..Len(root_directory)

\* the file yields a script: it is a candidate that matches a script grammar
\* with all its parts
YieldsScript(file_path) == script_of_file(file_path).kind = "script"

\* the filename with a trailing .jinja removed
NameWithoutJinja(file_path) ==
    LET file_name == PathName(file_path)
    IN  IF EndsWith(Lower(file_name), DotJinja)
        THEN SubSeq(file_name, 1, Len(file_name) - Len(DotJinja))
        ELSE file_name

\* discovery of the files the walk yields before the i-th one succeeds
NoErrorBefore(i) == get_all_scripts_recursively(SubSeq(root_directory, 1, i - 1)).kind = "ok"

\* the files i < j of the walk yield script names that are equal ignoring case
NamesCollide(i, j) ==
    /\ i < j
    /\ YieldsScript(root_directory[i])
    /\ YieldsScript(root_directory[j])
    /\ Lower(NameWithoutJinja(root_directory[i])) = Lower(NameWithoutJinja(root_directory[j]))

\* C26: discovery fails whenever two files under the root folder yield
\* script names that are equal ignoring case, the name being the filename
\* with a trailing .jinja removed; the error of the first such pair the
\* walk meets names both file paths; every mapping that discovery returns
\* has pairwise distinct lowercased names.
C26_CaseInsensitiveNamesUnique ==
    DiscoveryCalled =>
        /\ \A i, j \in Walked :
               NamesCollide(i, j) =>
                   /\ discovery_result.kind = "error"
                   /\ NoErrorBefore(j) =>
                          /\ discovery_result.error = "The script name exists more than once"
                          /\ discovery_result.file_path = root_directory[j]
                          /\ InSeq(root_directory[i], discovery_result.named)
        /\ discovery_result.kind = "ok" =>
               \A m, n \in 1..Len(discovery_result.all_files) :
                   m # n => Lower(discovery_result.all_files[m].name) # Lower(discovery_result.all_files[n].name)

\* V1__a.sql and v1__A.SQL.jinja walked one after the other: the error names both
C26_Witness ==
    /\ DiscoveryCalled
    /\ Len(root_directory) = 2
    /\ root_directory[1] # Lower(root_directory[1])
    /\ NameWithoutJinja(root_directory[1]) # NameWithoutJinja(root_directory[2])
    /\ NamesCollide(1, 2)
    /\ discovery_result.kind = "error"
    /\ discovery_result.file_path = root_directory[2]
    /\ InSeq(root_directory[1], discovery_result.named)

\* a mapping of three scripts is returned
C26_MappingReached ==
    /\ DiscoveryCalled
    /\ discovery_result.kind = "ok"
    /\ Len(discovery_result.all_files) = MaxWalk

\* the files i < j of the walk yield V scripts with the same version string
VersionsCollide(i, j) ==
    /\ i < j
    /\ YieldsScript(root_directory[i])
    /\ YieldsScript(root_directory[j])
    /\ script_of_file(root_directory[i]).type = "V"
    /\ script_of_file(root_directory[j]).type = "V"
    /\ script_of_file(root_directory[i]).version = script_of_file(root_directory[j]).version

\* C27: discovery fails whenever two V scripts carry the same version
\* string, also when one is a SQL script and the other a CLI script and
\* when their descriptions differ; every mapping that discovery returns has
\* pairwise distinct versions among its V records.
C27_VersionsUnique ==
    DiscoveryCalled =>
        /\ \A i, j \in Walked : VersionsCollide(i, j) => discovery_result.kind = "error"
        /\ discovery_result.kind = "ok" =>
               \A m, n \in 1..Len(discovery_result.all_files) :
                   (/\ m # n
                    /\ discovery_result.all_files[m].type = "V"
                    /\ discovery_result.all_files[n].type = "V")
                   => discovery_result.all_files[m].version # discovery_result.all_files[n].version

\* a SQL and a CLI script of the same version with different names: the
\* walk stops at the second with the error of the version
C27_Witness ==
    /\ DiscoveryCalled
    /\ \E i, j \in Walked :
           /\ VersionsCollide(i, j)
           /\ ~NamesCollide(i, j)
           /\ script_of_file(root_directory[i]).format # script_of_file(root_directory[j]).format
           /\ discovery_result.kind = "error"
           /\ discovery_result.error = "The script version exists more than once"
           /\ discovery_result.file_path = root_directory[j]

\* two V scripts of different versions in a returned mapping
C27_TwoVersionsReached ==
    /\ DiscoveryCalled
    /\ discovery_result.kind = "ok"
    /\ \E m, n \in 1..Len(discovery_result.all_files) :
           /\ m # n
           /\ discovery_result.all_files[m].type = "V"
           /\ discovery_result.all_files[n].type = "V"

\* the file is a candidate: its name ends with .sql, .sql.jinja, .cli.yml or
\* .cli.yml.jinja, ignoring case
IsCandidate(file_path) ==
    \E suffix \in {DotSql, DotSql \o DotJinja, DotCliYml, DotCliYml \o DotJinja} :
        EndsWith(Lower(PathName(file_path)), suffix)

\* the name of the candidate starts with a V/R/A prefix (V with a version)
\* followed by a single underscore and a description, and has no two
\* underscores in a row anywhere
HasSingleUnderscore(file_path) ==
    LET file_name == Strip(PathName(file_path))
        underscore == Find(file_name, <<"_">>, 1)
        description_end ==
            IF EndsWith(Lower(file_name), DotCliYml) THEN Len(file_name) - Len(DotCliYml)
            ELSE IF EndsWith(Lower(file_name), DotCliYml \o DotJinja)
            THEN Len(file_name) - Len(DotCliYml \o DotJinja)
            ELSE Find(file_name, <<".">>, underscore + 2) - 1
    IN  /\ IsCandidate(file_path)
        /\ LowerChar(file_name[1]) \in {"v", "r", "a"}
        /\ ~Contains(file_name, <<"_", "_">>)
        /\ IF LowerChar(file_name[1]) = "v" THEN underscore > 2 ELSE underscore = 2
        /\ description_end > underscore

\* the name of the candidate matches no script grammar: it does not start
\* with V, R or A, or it has no underscore
MatchesNoGrammar(file_path) ==
    /\ IsCandidate(file_path)
    /\ \/ LowerChar(Strip(PathName(file_path))[1]) \notin {"v", "r", "a"}
       \/ ~Contains(PathName(file_path), <<"_">>)

\* the walk without its i-th file
WalkWithout(i) == SubSeq(root_directory, 1, i - 1) \o SubSeq(root_directory, i + 1, Len(root_directory))

\* the diagnostic names the prefix of the file: V, R or A, with the version
\* for V, the part of the name before the separator
NamesPrefixOf(named, file_path) ==
    /\ Len(named) = 1
    /\ named[1] # <<>>
    /\ named[1][1] \in {"V", "R", "A"}
    /\ StartsWith(Lower(PathName(file_path)), Lower(named[1]))
    /\ PathName(file_path)[Len(named[1]) + 1] = "_"

C28_IgnoredReached ==
    /\ DiscoveryCalled
    /\ Len(root_directory) = MaxWalk
    /\ MatchesNoGrammar(root_directory[2])
    /\ discovery_result.kind = "ok"
    /\ Len(discovery_result.all_files) = 2

\* render has been called, on a SQL or a CLI script
RenderCalled == render_result.kind \in {"ok", "error"}

\* "-- schemachange-no-jinja"
NoJinjaComment == SubSeq(NoJinjaMarker, 1, Len(NoJinjaMarker) - 1)

\* C29: when the template text contains the marker comment
\* '-- schemachange-no-jinja', render returns the text without template
\* expansion: no error of the template engine is raised, and the
\* '{{ name }}' expressions of the template stay literally in the canonical
\* form, also when a variable of that name is supplied.
C29_NoJinjaMarkerKeepsExpressions ==
    (RenderCalled /\ Contains(render_template, NoJinjaComment)) =>
        /\ render_result.kind = "error" =>
               render_result.error \in {"rendered to empty content", "contains only comments or semicolons"}
        /\ render_result.kind = "ok" =>
               \A expression \in {ExprN, ExprU} :
                   Contains(render_template, expression) => Contains(render_result.content, expression)

\* render of a template with the marker, an expression and its variable
C29_MarkedTemplateRendered ==
    /\ RenderCalled
    /\ StartsWith(render_template, NoJinjaMarker)
    /\ Contains(render_template, ExprN)
    /\ render_variables = RenderVariables
    /\ render_result.kind = "ok"

\* the env map of the m-th step of the script as the YAML content has it,
\* the empty map when the step has none
OwnEnv(m) ==
    LET data == exec_args[1].content.steps[m]
    IN  IF "env" \in DOMAIN data THEN data.env ELSE <<>>

\* the environment of every subprocess started is the process environment
\* overlaid with the env map of its step, and a name set by the env of an
\* earlier step is in it only if the process environment or the step's own
\* env has it
EnvironOfRuns ==
    \A n \in 1..Len(subprocess_runs) :
        /\ DOMAIN subprocess_runs[n].env = DOMAIN os_environ \cup DOMAIN OwnEnv(n)
        /\ \A name \in DOMAIN subprocess_runs[n].env :
               subprocess_runs[n].env[name] =
                   IF name \in DOMAIN OwnEnv(n) THEN OwnEnv(n)[name] ELSE os_environ[name]
        /\ \A m \in 1..(n - 1) :
               \A name \in DOMAIN OwnEnv(m) \cap DOMAIN subprocess_runs[n].env :
                   name \in DOMAIN os_environ \cup DOMAIN OwnEnv(n)

\* C30: the environment of each step's subprocess is the process
\* environment overlaid with that step's env map only: names set by one
\* step's env never appear in the environment of a later step unless they
\* are in the process environment (or in the later step's own env), and
\* executing steps never changes the process environment.
C30_StepEnvironNotShared == [](EnvironOfRuns) /\ [][os_environ' = os_environ]_vars

\* a step whose env sets K, then a step without K in its env, in a process
\* whose environment has no K: the second subprocess does not see K
C30_Witness ==
    /\ Len(subprocess_runs) = 2
    /\ "K" \in DOMAIN OwnEnv(1)
    /\ "K" \in DOMAIN subprocess_runs[1].env
    /\ "K" \notin DOMAIN os_environ
    /\ "K" \notin DOMAIN subprocess_runs[2].env

\* a step whose env overrides a name of the process environment, then a
\* step without env: the second subprocess has the value of the process
C30_OverrideReached ==
    /\ Len(subprocess_runs) = 2
    /\ subprocess_runs[1].env["HOME"] # os_environ["HOME"]
    /\ DOMAIN OwnEnv(2) = {}
    /\ subprocess_runs[2].env = os_environ

\* the calls of the run that name the script and the function
CallsOf(script_name, fn) == {i \in 1..Len(calls) : calls[i].script = script_name /\ calls[i].fn = fn}
SessionCallsOf(script_name) ==
    CallsOf(script_name, "apply_change_script") \cup CallsOf(script_name, "record_change_history")

\* the place in the run of the script a call names
PlaceOf(script_name) == CHOOSE i \in 1..Len(outcomes) : outcomes[i].script = script_name

\* C31: in one deploy run there is exactly one apply_change_script call and
\* no record_change_history call for each dispatched SQL script, at most
\* one record_change_history call for each dispatched CLI script, no
\* session call for a script that was skipped (or not dispatched for another
\* reason), and the calls follow the order in which the scripts are
\* processed: every call names a script already taken up, and a call for a
\* later script never precedes a call for an earlier one.
C31_OneHistoryCallPerScript ==
    /\ \A i \in 1..Len(outcomes) :
           LET script == all_scripts[Lower(outcomes[i].script)]
           IN  IF outcomes[i].result \in {"applied", "failed"}
               THEN IF script.format = "SQL"
                    THEN /\ Cardinality(CallsOf(script.name, "apply_change_script")) = 1
                         /\ CallsOf(script.name, "record_change_history") = {}
                    ELSE /\ Cardinality(CallsOf(script.name, "record_change_history")) <= 1
                         /\ CallsOf(script.name, "apply_change_script") = {}
               ELSE SessionCallsOf(script.name) = {}
    /\ \A a \in 1..Len(calls) : \E i \in 1..Len(outcomes) : outcomes[i].script = calls[a].script
    /\ \A a, b \in 1..Len(calls) : a < b => PlaceOf(calls[a].script) <= PlaceOf(calls[b].script)

\* a run in which a script was skipped and a SQL script dispatched after it
C31_Witness ==
    /\ Len(outcomes) = 2
    /\ outcomes[1].result = "skipped"
    /\ outcomes[2].result = "applied"
    /\ all_scripts[Lower(outcomes[2].script)].format = "SQL"
    /\ Len(calls) = 1
    /\ calls[1].fn = "apply_change_script"
    /\ calls[1].script = outcomes[2].script

\* a run in which a SQL script was dispatched and a CLI script after it
C31_CliAfterSqlReached ==
    /\ Len(outcomes) = 2
    /\ outcomes[1].result = "applied"
    /\ all_scripts[Lower(outcomes[1].script)].format = "SQL"
    /\ all_scripts[Lower(outcomes[2].script)].format = "CLI"
    /\ outcomes[2].result = "failed"
    /\ Len(calls) = 2

\* the version is neither null nor empty
IsValidVersion(v) == v # None /\ v # <<>>

\* the k-th element of a set of numbers, counted from 1
NthOf(S, k) == CHOOSE x \in S : Cardinality({y \in S : y < x}) = k - 1

\* the maximal digit runs of a text: where they start and end, the k-th run,
\* and the text between the k-th run and the next (k = 0: before the first)
RunStarts(s) == {i \in 1..Len(s) : IsDigit(s[i]) /\ (i = 1 \/ ~IsDigit(s[i - 1]))}
RunEnds(s) == {i \in 1..Len(s) : IsDigit(s[i]) /\ (i = Len(s) \/ ~IsDigit(s[i + 1]))}
RunCount(s) == Cardinality(RunStarts(s))
DigitRun(s, k) == SubSeq(s, NthOf(RunStarts(s), k), NthOf(RunEnds(s), k))
TextAfterRun(s, k) ==
    SubSeq(s, IF k = 0 THEN 1 ELSE NthOf(RunEnds(s), k) + 1,
              IF k = RunCount(s) THEN Len(s) ELSE NthOf(RunStarts(s), k + 1) - 1)

\* the key is the text split on its maximal digit runs: the lowercased
\* texts at the odd places, the numbers of the runs at the even places
IsSplitOnDigitRuns(v, key) ==
    /\ Len(key) = 2 * RunCount(v) + 1
    /\ \A k \in 1..RunCount(v) : key[2 * k] = IntOf(DigitRun(v, k))
    /\ \A k \in 0..RunCount(v) : key[2 * k + 1] = Lower(TextAfterRun(v, k))

\* two versions that differ in their digit runs only
SameTexts(v, w) ==
    /\ RunCount(v) = RunCount(w)
    /\ \A k \in 0..RunCount(v) : Lower(TextAfterRun(v, k)) = Lower(TextAfterRun(w, k))

\* the order of the numbers of their digit runs, the first difference deciding
NumericOrder(v, w) ==
    LET differ == {k \in 1..RunCount(v) : IntOf(DigitRun(v, k)) # IntOf(DigitRun(w, k))}
        first == NthOf(differ, 1)
    IN  IF differ = {} THEN 0
        ELSE IF IntOf(DigitRun(v, first)) < IntOf(DigitRun(w, first)) THEN -1 ELSE 1

ValidOf(list) == {list[i] : i \in {j \in 1..Len(list) : IsValidVersion(list[j])}}

\* C32: get_alphanum_key returns the empty sequence for null or empty input
\* and otherwise the text split on its maximal digit runs into lowercased
\* strings and integers; the comparison of two keys orders versions that
\* differ only in their digit runs by the numbers of the runs; and
\* max_alphanumeric returns an element with the greatest key among the
\* entries that are neither null nor empty, or null when there is none.
C32_AlphanumKeyAndMax ==
    /\ alphanum_keys # Absent =>
           /\ \A i \in 1..Len(versions) :
                  IF IsValidVersion(versions[i])
                  THEN IsSplitOnDigitRuns(versions[i], alphanum_keys[1][i])
                  ELSE alphanum_keys[1][i] = <<>>
           /\ \A i, j \in 1..Len(versions) :
                  (/\ IsValidVersion(versions[i])
                   /\ IsValidVersion(versions[j])
                   /\ SameTexts(versions[i], versions[j]))
                  => KeyCmp(alphanum_keys[1][i], alphanum_keys[1][j]) = NumericOrder(versions[i], versions[j])
    /\ max_version # Absent =>
           IF ValidOf(versions) = {} THEN max_version[1] = None
           ELSE /\ max_version[1] \in ValidOf(versions)
                /\ \A v \in ValidOf(versions) :
                       KeyLeq(get_alphanum_key(v), get_alphanum_key(max_version[1]))

\* 1.0.2 listed before 1.0.10, with a null entry: the key of 1.0.10 is
\* ['', 1, '.', 0, '.', 10, ''], it is the greater one, and 1.0.10 is the maximum
C32_Witness ==
    /\ versions = <<Ver_1_0_2, None, Ver_1_0_10>>
    /\ alphanum_keys # Absent
    /\ alphanum_keys[1][3] = <<<<>>, 1, <<".">>, 0, <<".">>, 10, <<>>>>
    /\ KeyCmp(alphanum_keys[1][3], alphanum_keys[1][1]) = 1
    /\ max_version = Some(Ver_1_0_10)

\* a list without a valid entry: the maximum is null
C32_NoValidEntryReached ==
    /\ Len(versions) = 2
    /\ ValidOf(versions) = {}
    /\ max_version = Some(None)

\* the stripped content ends with at least n semicolons
EndsWithSemicolons(n) ==
    /\ Len(StrippedInput) >= n
    /\ \A k \in 0..(n - 1) : StrippedInput[Len(StrippedInput) - k] = ";"

\* the stripped content without its last character
StrippedInputButLast == SubSeq(StrippedInput, 1, Len(StrippedInput) - 1)

\* C33: render drops a trailing ';' from SQL content only when the stripped
\* content ends with exactly one ';': content that ends with two or more
\* consecutive semicolons is left with all of them.
C33_OnlySingleSemicolonDropped ==
    RenderedSql =>
        /\ EndsWithSemicolons(2) => render_result.content = StrippedInput
        /\ render_result.content # StrippedInput =>
               EndsWithSemicolons(1) /\ ~EndsWithSemicolons(2)

\* C33 as the code has it: render drops the last ';' of the stripped content
\* whenever the stripped content ends with ';', however many semicolons
\* precede it: content that ends with two or more consecutive semicolons
\* loses exactly the last of them, and content that does not end with ';'
\* is returned as stripped.
C33_LastSemicolonAlwaysDropped ==
    RenderedSql =>
        /\ EndsWithSemicolons(1) => render_result.content = StrippedInputButLast
        /\ EndsWithSemicolons(2) => EndsWith(render_result.content, <<";">>)
        /\ ~EndsWithSemicolons(1) => render_result.content = StrippedInput

\* 'S;;' is rendered to 'S;'
C33_Witness ==
    /\ RenderedSql
    /\ EndsWithSemicolons(2)
    /\ ~EndsWithSemicolons(3)
    /\ render_result.content = StrippedInputButLast
    /\ EndsWith(render_result.content, <<";">>)

\* the execution plan has been computed from the scripts discovery returned
PlanSorted == pc = "sorted"

\* the script at a place of the execution plan, and the key of its version
PlanScript(i) == all_scripts[all_script_names_sorted[i]]
VersionKey(script) == get_alphanum_key(script.version)

WalkedFiles == {root_directory[i] : i \in 1..Len(root_directory)}

\* C35: the execution order is a function of the set of discovered script
\* names only: every order in which the walk can enumerate the same files
\* gives the same plan, also when two distinct names have equal alphanumeric
\* keys (V1.0__a.sql and V1.00__a.sql).
C35_PlanIndependentOfWalkOrder ==
    PlanSorted =>
        \A file_paths \in Orderings(WalkedFiles) :
            LET found == get_all_scripts_recursively(file_paths)
            IN  found.kind = "ok" => ExecutionPlan(found.all_files) = all_script_names_sorted

\* C36: the execution plan is a permutation of the discovered scripts: every
\* script of the mapping discovery returned is exactly once in the plan, also
\* when its filename has whitespace before the V/R/A prefix.
C36_PlanIsPermutation ==
    PlanSorted =>
        /\ Len(all_script_names_sorted) = Len(discovery_result.all_files)
        /\ \A m \in 1..Len(discovery_result.all_files) :
               Cardinality({i \in 1..Len(all_script_names_sorted) :
                               all_script_names_sorted[i] = Lower(discovery_result.all_files[m].name)}) = 1

\* C37: no two V scripts accepted by discovery have equal alphanumeric
\* version keys, the keys deploy compares with max_published_version: V1.0
\* and V1.00, or V1.a and V1.A, are not both accepted.
C37_VersionKeysUnique ==
    discovery_result.kind = "ok" =>
        \A m, n \in 1..Len(discovery_result.all_files) :
            (/\ m # n
             /\ discovery_result.all_files[m].type = "V"
             /\ discovery_result.all_files[n].type = "V")
            => KeyCmp(VersionKey(discovery_result.all_files[m]), VersionKey(discovery_result.all_files[n])) # 0

\* the scripts of the run the loop has finished with the given result, as a
\* sequence of their names in the order of the loop
RECURSIVE NamesWithResult(_, _)
NamesWithResult(done, result) ==
    IF done = <<>> THEN <<>>
    ELSE (IF Head(done).result = result THEN <<Head(done).script>> ELSE <<>>)
         \o NamesWithResult(Tail(done), result)

\* C38: at every point of the deploy loop applied + skipped + failed is the
\* number of scripts processed so far (each counter the number of scripts
\* with that result) and failed is the length of failed_scripts, the names
\* of the failed scripts; deploy returns normally only when failed = 0 and
\* applied + skipped is the number of scripts of the plan; a run over an
\* empty repository does not raise and has applied = skipped = 0.
C38_CountersMatchProcessed ==
    /\ scripts_applied = Len(NamesWithResult(outcomes, "applied"))
    /\ scripts_skipped = Len(NamesWithResult(outcomes, "skipped"))
    /\ scripts_failed = Len(failed_scripts)
    /\ failed_scripts = NamesWithResult(outcomes, "failed")
    /\ pc = "running" => scripts_applied + scripts_skipped + scripts_failed = Len(outcomes)
    /\ pc = "done" =>
           /\ scripts_failed = 0
           /\ scripts_applied + scripts_skipped = Len(all_script_names_sorted)
    /\ (DOMAIN files = {} /\ pc # "idle") =>
           /\ pc \in {"running", "done"}
           /\ scripts_applied = 0
           /\ scripts_skipped = 0

\* a run of two scripts that returned normally with one applied and one skipped
C38_Witness ==
    /\ pc = "done"
    /\ Len(all_script_names_sorted) = 2
    /\ scripts_applied = 1
    /\ scripts_skipped = 1

\* inside the loop, after a failure the run continues from
C38_FailedInLoopReached ==
    /\ pc = "running"
    /\ Len(all_script_names_sorted) = 2
    /\ Len(outcomes) = 1
    /\ scripts_failed = 1

\* a run over an empty repository has returned
C38_EmptyRepositoryReached == DOMAIN files = {} /\ pc = "done"

\* prepare_for_execution was called on a SQL content, and again on its result
PreparedTwice == PrepareCalled /\ prepare_again # Absent /\ ~_is_cli_script(render_script)

\* C39: prepare_for_execution only ever appends and is idempotent: for every
\* SQL content c the result is c itself or c without its trailing whitespace
\* followed by the fix-up line, and prepare_for_execution of the result is
\* the result.
C39_PrepareAppendsAndIsIdempotent ==
    /\ (PrepareCalled /\ ~_is_cli_script(render_script)) =>
           \/ prepare_result[1] = PreparedContent
           \/ prepare_result[1] = RStrip(PreparedContent) \o TrailingCommentFix
    /\ PreparedTwice => prepare_again = prepare_result

\* a content that got the fix-up line, handed to prepare_for_execution again
C39_Witness ==
    /\ PreparedTwice
    /\ prepare_result[1] = RStrip(PreparedContent) \o TrailingCommentFix
    /\ prepare_result[1] # PreparedContent
    /\ prepare_again = prepare_result

\* a content with a semicolon and a newline after it that is left as it is,
\* both times
C39_UnchangedTwiceReached ==
    /\ PreparedTwice
    /\ _find_last_real_semicolon(PreparedContent) > 0
    /\ Contains(SubSeq(PreparedContent, _find_last_real_semicolon(PreparedContent), Len(PreparedContent)), <<"\n">>)
    /\ prepare_result[1] = PreparedContent
    /\ prepare_again = prepare_result

\* the previous run dispatched the script and the dispatch failed
FailedInPreviousRun(script_name) ==
    \E k \in 1..Len(prev.outcomes) :
        prev.outcomes[k].script = script_name /\ prev.outcomes[k].result = "failed"

\* a run that follows another one, on the same files, with out_of_order =
\* false and continue_versioned_on_error = true
RetryingRun ==
    /\ prev.pc # "none"
    /\ edited_before = {}
    /\ ~config.out_of_order
    /\ config.continue_versioned_on_error

\* C40: with out_of_order = false and continue_versioned_on_error = true, a
\* V script whose dispatch failed in one run is dispatched again by the
\* next run, also when a V script with a higher version succeeded in the
\* first run: a failed V script is never skipped in later runs.
C40_FailedVersionedRetried ==
    RetryingRun =>
        \A i \in 1..Len(outcomes) :
            (OutcomeType(outcomes[i]) = "V" /\ FailedInPreviousRun(outcomes[i].script))
            => WasDispatched(outcomes[i])

\* C40 as the code has it: the next run dispatches the failed V script again
\* when its version key is above the key of max_published_version; when a
\* V script with a version key that is not smaller has succeeded by then,
\* the next run skips the failed script, or raises 'Versioned script will
\* never be applied' if raise_exception_on_ignored_versioned_script is set.
C40_FailedVersionedRetriedUnlessOlder ==
    RetryingRun =>
        \A i \in 1..Len(outcomes) :
            (OutcomeType(outcomes[i]) = "V" /\ FailedInPreviousRun(outcomes[i].script))
            => IF NotAboveMax(all_scripts[Lower(outcomes[i].script)])
               THEN outcomes[i].result
                        = IF config.raise_exception_on_ignored_versioned_script
                          THEN "never applied" ELSE "skipped"
               ELSE WasDispatched(outcomes[i])

\* V1.0.2 failed and V1.0.10 succeeded in the first run; the second run
\* skips V1.0.2
C40_Witness ==
    /\ RetryingRun
    /\ Len(prev.outcomes) = 2
    /\ prev.outcomes[1].result = "failed"
    /\ prev.outcomes[2].result = "applied"
    /\ Len(outcomes) >= 1
    /\ outcomes[1].script = prev.outcomes[1].script
    /\ OutcomeType(outcomes[1]) = "V"
    /\ OutcomeType(prev.outcomes[2]) = "V"
    /\ outcomes[1].result = "skipped"

\* a V script that failed in the first run is dispatched by the second
C40_RetriedReached ==
    /\ RetryingRun
    /\ Len(outcomes) >= 1
    /\ OutcomeType(outcomes[1]) = "V"
    /\ FailedInPreviousRun(outcomes[1].script)
    /\ WasDispatched(outcomes[1])

====
